---- MODULE Spec2Model ----
(***************************************************************************)
(* The swap engine of minter-go-node (package swap): the registry of       *)
(* liquidity pairs (Swap), the pair engine (Pair) with its constant-       *)
(* product arithmetic, and the liquidity operations create / mint / burn.  *)
(*                                                                         *)
(* Amounts are *big.Int in the source.  They are modelled as signed        *)
(* arbitrary-precision integers (a sign and a sequence of limbs), so that  *)
(* products such as reserve0 * reserve1 * 1000000 are computed exactly as  *)
(* math/big computes them, with no overflow.                               *)
(***************************************************************************)
EXTENDS Integers, Sequences, FiniteSets, TLC

(***************************************************************************)
(* math/big.Int                                                            *)
(***************************************************************************)

\* Radix of one limb of a magnitude (least significant limb first).
Base == 1000

\* Limb i of a magnitude, 0 outside it.
MAt(m, i) == IF i >= 1 /\ i <= Len(m) THEN m[i] ELSE 0

\* The index of the most significant limb of m that is not 0, 0 if none is.
MTopIndex(m) ==
    IF \A i \in 1..Len(m) : m[i] = 0 THEN 0
    ELSE CHOOSE i \in 1..Len(m) : m[i] # 0 /\ \A j \in (i + 1)..Len(m) : m[j] = 0

\* A magnitude without its most significant zero limbs.
MNorm(m) == SubSeq(m, 1, MTopIndex(m))

RECURSIVE MFromNat(_)
MFromNat(n) ==
    IF n = 0 THEN <<>> ELSE <<n % Base>> \o MFromNat(n \div Base)

\* The most significant limb in which two magnitudes of equal length differ.
MDiffIndex(a, b) ==
    CHOOSE i \in 1..Len(a) : a[i] # b[i] /\ \A j \in (i + 1)..Len(a) : a[j] = b[j]

MCmp(a, b) ==
    IF Len(a) < Len(b) THEN -1
    ELSE IF Len(a) > Len(b) THEN 1
    ELSE IF \A i \in 1..Len(a) : a[i] = b[i] THEN 0
    ELSE IF a[MDiffIndex(a, b)] < b[MDiffIndex(a, b)] THEN -1
    ELSE 1

MMaxLen(a, b) == IF Len(a) >= Len(b) THEN Len(a) ELSE Len(b)

\* Whether the limbs below i of a and b carry into limb i of their sum: a
\* limb below makes a carry and every limb between hands it on.
MAddCarry(a, b, i) ==
    \E j \in 1..(i - 1) :
        /\ MAt(a, j) + MAt(b, j) >= Base
        /\ \A k \in (j + 1)..(i - 1) : MAt(a, k) + MAt(b, k) = Base - 1

MAddAt(a, b, i) ==
    (MAt(a, i) + MAt(b, i) + IF MAddCarry(a, b, i) THEN 1 ELSE 0) % Base

MAdd(a, b) ==
    IF a = <<>> THEN MNorm(b)
    ELSE IF b = <<>> THEN MNorm(a)
    ELSE MNorm(SubSeq([i \in 1..(MMaxLen(a, b) + 1) |-> MAddAt(a, b, i)], 1,
                      MMaxLen(a, b) + 1))

\* Whether the limbs below i of a and b borrow from limb i of a - b.
MSubBorrow(a, b, i) ==
    \E j \in 1..(i - 1) :
        /\ MAt(a, j) < MAt(b, j)
        /\ \A k \in (j + 1)..(i - 1) : MAt(a, k) <= MAt(b, k)

MSubAt(a, b, i) ==
    (MAt(a, i) - MAt(b, i) - (IF MSubBorrow(a, b, i) THEN 1 ELSE 0) + Base) % Base

\* a - b for magnitudes with a >= b.
MSub(a, b) == MNorm(SubSeq([i \in 1..Len(a) |-> MSubAt(a, b, i)], 1, Len(a)))

\* A magnitude times the radix.
MShift(a) == IF a = <<>> THEN <<>> ELSE <<0>> \o a

\* What the three limbs of the c[k] < Base^3 add up to at limb k of the number
\* with the digits c[k] at the radix Base.
MDigit(c, k) ==
    (MAt(c, k) % Base) + ((MAt(c, k - 1) \div Base) % Base)
        + (MAt(c, k - 2) \div (Base * Base))

\* The number with the n digits c[k] < Base^3 at the radix Base.
MCarried(c, n) ==
    IF c = <<>> THEN <<>>
    ELSE MAdd(SubSeq([k \in 1..(n + 2) |-> MDigit(c, k) % Base], 1, n + 2),
              MShift(SubSeq([k \in 1..(n + 2) |-> MDigit(c, k) \div Base], 1, n + 2)))

\* A magnitude times one limb.
MMulSmall(a, d) ==
    IF d = 0 THEN <<>>
    ELSE MCarried(SubSeq([k \in 1..Len(a) |-> a[k] * d], 1, Len(a)), Len(a))

RECURSIVE MConv(_, _, _, _, _)
\* The sum of a[i] * b[k + 1 - i] over the i in lo..hi.
MConv(a, b, k, lo, hi) ==
    IF lo > hi THEN 0
    ELSE IF lo = hi THEN a[lo] * MAt(b, k + 1 - lo)
    ELSE MConv(a, b, k, lo, (lo + hi) \div 2)
             + MConv(a, b, k, (lo + hi) \div 2 + 1, hi)

MMulLen(a, b) == Len(a) + Len(b) - 1

MMul(a, b) ==
    IF a = <<>> \/ b = <<>> THEN <<>>
    ELSE MCarried(SubSeq([k \in 1..MMulLen(a, b) |-> MConv(a, b, k, 1, Len(a))], 1,
                         MMulLen(a, b)),
                  MMulLen(a, b))

\* The value of the n most significant limbs of a magnitude (n <= 3).
MTop(m, n) ==
    IF n = 1 THEN MAt(m, Len(m))
    ELSE IF n = 2 THEN MAt(m, Len(m)) * Base + MAt(m, Len(m) - 1)
    ELSE (MAt(m, Len(m)) * Base + MAt(m, Len(m) - 1)) * Base + MAt(m, Len(m) - 2)

RECURSIVE MFit(_, _, _)
\* The largest q <= guess with q * b <= r.
MFit(r, b, guess) ==
    IF MCmp(MMulSmall(b, guess), r) <= 0 THEN guess ELSE MFit(r, b, guess - 1)

\* An upper estimate of r \div b from the leading limbs, for b <= r < b * Base.
MEstimate(r, b) ==
    IF Len(b) = 1 THEN MTop(r, Len(r)) \div b[1]
    ELSE IF Len(r) = Len(b) THEN MTop(r, 2) \div MTop(b, 2)
    ELSE MTop(r, 3) \div MTop(b, 2)

MCap(est) == IF est > Base - 1 THEN Base - 1 ELSE est

\* One quotient limb: the largest q with q * b <= r, given r < b * Base, b # 0.
MQuoLimb(r, b) ==
    IF MCmp(r, b) < 0 THEN 0 ELSE MFit(r, b, MCap(MEstimate(r, b)))

RECURSIVE MDivModFrom(_, _, _, _, _)
\* The quotient limb q of the remainder cur is put before the limbs qs found
\* so far, and the division goes on below limb i with what is left of cur.
MDivNext(a, b, i, cur, q, qs) ==
    IF q = 0 THEN MDivModFrom(a, b, i - 1, cur, <<0>> \o qs)
    ELSE MDivModFrom(a, b, i - 1, MSub(cur, MMulSmall(b, q)), <<q>> \o qs)

\* Long division of the limbs i..1 of a by b, with r the remainder and qs the
\* quotient limbs so far: the quotient and the final remainder.
MDivModFrom(a, b, i, r, qs) ==
    IF i = 0 THEN [q |-> MNorm(qs), r |-> r]
    ELSE MDivNext(a, b, i, MNorm(<<a[i]>> \o r), MQuoLimb(MNorm(<<a[i]>> \o r), b), qs)

\* Quotient and remainder of magnitudes, b # 0: the limbs of a above the
\* first quotient limb are below b, and start as the remainder.
MDivMod(a, b) ==
    IF Len(a) < Len(b) THEN [q |-> <<>>, r |-> a]
    ELSE MDivModFrom(a, b, Len(a) - Len(b) + 1,
                     SubSeq(a, Len(a) - Len(b) + 2, Len(a)), <<>>)

\* A big.Int: sign s in {-1, 0, 1} and magnitude m (s = 0 iff m = <<>>).
MkBig(s, m) == IF m = <<>> THEN [s |-> 0, m |-> <<>>] ELSE [s |-> s, m |-> m]

\* big.NewInt(n)
Big(n) == IF n < 0 THEN MkBig(-1, MFromNat(-n)) ELSE MkBig(1, MFromNat(n))

Sign(x) == x.s

Neg(x) == MkBig(-x.s, x.m)

Cmp(x, y) ==
    IF x.s # y.s THEN (IF x.s < y.s THEN -1 ELSE 1)
    ELSE IF x.s = 0 THEN 0
    ELSE x.s * MCmp(x.m, y.m)

\* The sum of x and y of opposite signs, c comparing their magnitudes.
AddOpposite(x, y, c) ==
    IF c = 0 THEN MkBig(0, <<>>)
    ELSE IF c > 0 THEN MkBig(x.s, MSub(x.m, y.m))
    ELSE MkBig(y.s, MSub(y.m, x.m))

Add(x, y) ==
    IF x.s = 0 THEN y
    ELSE IF y.s = 0 THEN x
    ELSE IF x.s = y.s THEN MkBig(x.s, MAdd(x.m, y.m))
    ELSE AddOpposite(x, y, MCmp(x.m, y.m))

Sub(x, y) == Add(x, Neg(y))

Mul(x, y) == MkBig(x.s * y.s, MMul(x.m, y.m))

\* big.Int.Quo: the quotient truncated toward zero; y # 0.
Quo(x, y) == MkBig(x.s * y.s, MDivMod(x.m, y.m).q)

\* The Euclidean quotient from the quotient and remainder d of the magnitudes.
DivEuclid(x, y, d) ==
    IF x.s >= 0 \/ d.r = <<>> THEN MkBig(x.s * y.s, d.q)
    ELSE MkBig(x.s * y.s, MAdd(d.q, <<1>>))

\* big.Int.Div: Euclidean division (the remainder is never negative); y # 0.
Div(x, y) == DivEuclid(x, y, MDivMod(x.m, y.m))

RECURSIVE MSqrtIter(_, _)
\* The next estimate (z + q) \div 2 is below z unless q >= z.
MSqrtNext(m, z, q) ==
    IF MCmp(q, z) >= 0 THEN z ELSE MSqrtIter(m, MDivMod(MAdd(z, q), <<2>>).q)

\* Newton's iteration downward from an upper estimate z >= floor(sqrt(m)).
MSqrtIter(m, z) == MSqrtNext(m, z, MDivMod(m, z).q)

\* The least r with r * r > t, for t below Base * Base.
NatSqrtUp(t) == CHOOSE r \in 1..Base : r * r > t /\ (r - 1) * (r - 1) <= t

\* The magnitude m times the power k of the radix.
MShifted(m, k) == [i \in 1..k |-> 0] \o m

\* An estimate of the square root of m from its two leading limbs, and not
\* below it: 32 * 32 > Base.
MSqrtStart(m) ==
    IF Len(m) = 1 THEN MFromNat(NatSqrtUp(m[1]))
    ELSE IF Len(m) % 2 = 0
    THEN MShifted(MFromNat(NatSqrtUp(MTop(m, 2))), (Len(m) - 2) \div 2)
    ELSE MShifted(MFromNat(32 * NatSqrtUp(MTop(m, 2))), (Len(m) - 3) \div 2)

\* big.Int.Sqrt: floor of the square root of x >= 0.
Sqrt(x) ==
    IF x.s = 0 THEN x
    ELSE [s |-> 1, m |-> MSqrtIter(x.m, MSqrtStart(x.m))]

(***************************************************************************)
(* Constants of package swap                                               *)
(***************************************************************************)

minimumLiquidity == 1000

commission == 2

\* var Bound = big.NewInt(minimumLiquidity)
Bound == Big(minimumLiquidity)

\* A nil *big.Int or a nil *Pair.
Nil == [nil |-> TRUE]

\* The values of the error variables, and the run-time panics of Go itself.
ErrorIdenticalAddresses == "IDENTICAL_ADDRESSES"
ErrorInsufficientLiquidityMinted == "INSUFFICIENT_LIQUIDITY_MINTED"
ErrorInsufficientLiquidityBurned == "INSUFFICIENT_LIQUIDITY_BURNED"
ErrorNotExist == "PAIR_NOT_EXISTS"
ErrorK == "K"
ErrorInsufficientInputAmount == "INSUFFICIENT_INPUT_AMOUNT"
ErrorInsufficientOutputAmount == "INSUFFICIENT_OUTPUT_AMOUNT"
ErrorInsufficientLiquidity == "INSUFFICIENT_LIQUIDITY"
PanicNilDereference == "invalid memory address or nil pointer dereference"
PanicDivisionByZero == "division by zero"
PanicLessMin == "calculatedAmount1Out less minAmount1Out"
PanicMoreMax == "calculatedAmount0In more maxAmount0In"

(***************************************************************************)
(* PairKey                                                                 *)
(***************************************************************************)

\* types.CoinID values used by the callers.
Coins == {1, 2, 3}

\* PairKey{Coin0, Coin1} as <<Coin0, Coin1>>.
KeyIsSorted(pk) == pk[1] < pk[2]

KeyReverse(pk) == <<pk[2], pk[1]>>

KeySort(pk) == IF KeyIsSorted(pk) THEN pk ELSE KeyReverse(pk)

\* The keys under which s.pairs and the tree hold a pair.
Keys == {KeySort(<<a, b>>) : a \in Coins, b \in Coins}

(***************************************************************************)
(* State                                                                   *)
(***************************************************************************)

VARIABLES
    db,           \* the immutable tree: pair records and the next pair id
    pairs,        \* Swap.pairs: key -> not in the map | nil | *Pair
    dirties,      \* Swap.dirties
    nextID,       \* Swap.nextID
    dirtyNextID,  \* Swap.dirtyNextID
    checker,      \* the checker bus: per coin, the sum of the deltas it received
    last,         \* the last call: operation, arguments, outcome
    prev,         \* the call before the last one
    steps,        \* number of calls made
    tree,         \* the mutable tree that Commit writes to
    book,         \* the order side of the Swap: next order id, orders, dirty orders
    ledger,       \* what the accounts and the event bus received
    genesis,      \* the pools of the last exported types.AppState
    modified,     \* keys of the pairs a call changed since the last Commit
    handed,       \* the ids given to pairs of this chain, by incID or by Import
    locks,        \* the mutexes of the Swap and where each goroutine stands
    votes         \* the Commission: the votes by height and the dirty heights

vars ==
    <<db, pairs, dirties, nextID, dirtyNextID, checker, last, prev, steps,
      tree, book, ledger, genesis, modified, handed, locks, votes>>

\* pairData{Reserve0, Reserve1, ID}
PairData(r0, r1, id) == [Reserve0 |-> r0, Reserve1 |-> r1, ID |-> id]

\* An entry of s.pairs: st is "absent" (no entry), "nil" (a nil *Pair) or
\* "pair", and then data is the pair's pairData.
Absent == [st |-> "absent", data |-> PairData(Big(0), Big(0), 0)]

NilEntry == [st |-> "nil", data |-> PairData(Big(0), Big(0), 0)]

\* The Swap object, as the operators below pass it along.
Self ==
    [pairs |-> pairs, dirties |-> dirties, nextID |-> nextID,
     dirtyNextID |-> dirtyNextID]

\* A tree record of a pair, and a missing one.
NoRecord == [present |-> FALSE, data |-> PairData(Big(0), Big(0), 0)]

Record(r0, r1, id) == [present |-> TRUE, data |-> PairData(r0, r1, id)]

\* A tree with no key of the swap engine.  The pair records and the next
\* pair id are kept by key as data and nextID (0: no such key); kv holds the
\* other keys, those of the orders, each with its value.
EmptyTree == [data |-> [k \in Keys |-> NoRecord], nextID |-> 0, kv |-> <<>>]

\* The order side of a Swap just made: nextOrderID, dirtyNextOrdersID,
\* dirtiesOrders, and of the pairs the orders held in memory (orders.list)
\* and the ids of the dirty ones (dirtyOrders.list).
EmptyBook ==
    [nextOrderID |-> 0, dirtyNextOrdersID |-> FALSE, dirtiesOrders |-> {},
     list |-> <<>>, dirty |-> [k \in Keys |-> {}]]

\* New(bus, db)
New(t) ==
    /\ db = t
    /\ pairs = [k \in Keys |-> Absent]
    /\ dirties = {}
    /\ nextID = 0
    /\ dirtyNextID = FALSE
    /\ checker = [c \in Coins |-> Big(0)]
    /\ book = EmptyBook

\* The goroutines: the executor, which runs Commit, and the callers of the
\* other methods.
Callers == {"rpc1", "rpc2"}

Goroutines == {"executor"} \cup Callers

\* sync.RWMutex muPairs and sync.Mutex muNextID with no holder, and every
\* goroutine before its call: pc is the place of a goroutine in its call,
\* readers the read locks it holds, writer the holder of the write lock,
\* pending the goroutines waiting in Lock, held the holder of muNextID.
NoLocks ==
    [pc |-> [g \in Goroutines |-> "idle"], call |-> [g \in Goroutines |-> ""],
     readers |-> [g \in Goroutines |-> 0], writer |-> "", pending |-> {},
     held |-> ""]

\* NewCommission(db): Commission.list and Commission.dirty are empty.
NoVotes == [list |-> <<>>, dirty |-> {}]

\* The accounts and the event bus before anything was sent to them.
NoLedger == [balance |-> <<>>, events |-> <<>>]

\* The start of a run: the mutable tree is a working copy of the tree the
\* Swap reads, and nothing was sent, exported or changed yet.
Started ==
    /\ tree = db
    /\ ledger = NoLedger
    /\ genesis = [Pools |-> <<>>, NextOrderID |-> 0]
    /\ modified = {}
    /\ handed = {}
    /\ locks = NoLocks
    /\ votes = NoVotes

(***************************************************************************)
(* pairData and the views of a pair                                        *)
(***************************************************************************)

\* pairData.reverse with the reserves left in place: a faulty variant, which
\* C11 must tell from the code.
DataReverseKeep(pd) == PairData(pd.Reserve0, pd.Reserve1, pd.ID)

\* pairData.reverse
DataReverse(pd) == PairData(pd.Reserve1, pd.Reserve0, pd.ID)

\* A *Pair: nil, or the pair stored under key, seen directly or reversed.
Handle(key, rev) == [nil |-> FALSE, key |-> key, rev |-> rev]

NilPair == [nil |-> TRUE, key |-> <<0, 0>>, rev |-> FALSE]

\* The pairData a *Pair reads: that of the stored pair, or its reverse.
View(s, p) ==
    IF p.rev THEN DataReverse(s.pairs[p.key].data) ELSE s.pairs[p.key].data

\* pairData.Reserves
Reserves(pd) == <<pd.Reserve0, pd.Reserve1>>

\* Swap.pair
pair(s, key) ==
    LET e == s.pairs[KeySort(key)]
    IN  IF e.st # "pair" THEN [p |-> NilPair, ok |-> e.st # "absent"]
        ELSE [p |-> Handle(KeySort(key), ~KeyIsSorted(key)), ok |-> TRUE]

\* Swap.addPair
addPair(s, key) ==
    [s EXCEPT !.pairs[KeySort(key)] =
        [st |-> "pair", data |-> PairData(Big(0), Big(0), 0)]]

\* Swap.Pair: the registry afterwards and the *Pair returned.
Pair(s, coin0, coin1) ==
    LET key == <<coin0, coin1>>
        got == pair(s, key)
        rec == db.data[KeySort(key)]
    IN  IF got.ok THEN [s |-> s, p |-> got.p]
        ELSE IF ~rec.present
        THEN [s |-> [s EXCEPT !.pairs[KeySort(key)] = NilEntry], p |-> NilPair]
        ELSE [s |-> [addPair(s, key) EXCEPT !.pairs[KeySort(key)].data = rec.data],
              p |-> Handle(KeySort(key), ~KeyIsSorted(key))]

\* Swap.loadNextID
loadNextID(s) ==
    IF s.nextID # 0 THEN s.nextID
    ELSE IF db.nextID = 0 THEN 1
    ELSE db.nextID

\* Swap.incID: the registry afterwards and the id handed out.
incID(s) ==
    LET id == loadNextID(s)
    IN  [s |-> [s EXCEPT !.nextID = id + 1, !.dirtyNextID = TRUE], id |-> id]

\* Swap.ReturnPair
ReturnPair(s, coin0, coin1) ==
    IF coin0 = coin1 THEN [s |-> s, p |-> NilPair, panic |-> ErrorIdenticalAddresses]
    ELSE LET got == Pair(s, coin0, coin1)
         IN  IF ~got.p.nil THEN [s |-> got.s, p |-> got.p, panic |-> ""]
             ELSE [s |-> addPair(got.s, <<coin0, coin1>>),
                   p |-> Handle(KeySort(<<coin0, coin1>>), ~KeyIsSorted(<<coin0, coin1>>)),
                   panic |-> ""]

\* Pair.update without its call of markDirty: a faulty variant, which C14
\* must tell from the code.
updateUnmarked(s, p, amount0, amount1) ==
    [s EXCEPT !.pairs[p.key].data =
        IF p.rev
        THEN PairData(Add(@.Reserve0, amount1), Add(@.Reserve1, amount0), @.ID)
        ELSE PairData(Add(@.Reserve0, amount0), Add(@.Reserve1, amount1), @.ID)]

\* Pair.update adding the amounts to the stored reserves as if the pair were
\* never seen reversed: a faulty variant, which C12 must tell from the code.
updateStored(s, p, amount0, amount1) ==
    [s EXCEPT !.dirties = @ \cup {p.key},
              !.pairs[p.key].data.Reserve0 = Add(@, amount0),
              !.pairs[p.key].data.Reserve1 = Add(@, amount1)]

\* Pair.update, with markDirty = Swap.markDirty(key)
update(s, p, amount0, amount1) ==
    LET pd == View(s, p)
        nd == [pd EXCEPT !.Reserve0 = Add(@, amount0), !.Reserve1 = Add(@, amount1)]
    IN  [s EXCEPT !.dirties = @ \cup {p.key},
                  !.pairs[p.key].data = IF p.rev THEN DataReverse(nd) ELSE nd]

(***************************************************************************)
(* Pair: liquidity                                                         *)
(***************************************************************************)

\* Pair.CalculateAddLiquidity with the liquidity rounded up instead of down: a
\* faulty variant, which C10 must tell from the code.
CalculateAddLiquidityCeil(pd, amount0, totalSupply) ==
    IF Sign(pd.Reserve0) = 0
    THEN [panic |-> PanicDivisionByZero, liquidity |-> Nil, amount1 |-> Nil]
    ELSE [panic |-> "",
          liquidity |-> Div(Add(Mul(totalSupply, amount0), Sub(pd.Reserve0, Big(1))),
                            pd.Reserve0),
          amount1 |-> Div(Mul(amount0, pd.Reserve1), pd.Reserve0)]

\* Pair.CalculateAddLiquidity; big.Int.Div panics on a zero reserve0.
CalculateAddLiquidity(pd, amount0, totalSupply) ==
    IF Sign(pd.Reserve0) = 0
    THEN [panic |-> PanicDivisionByZero, liquidity |-> Nil, amount1 |-> Nil]
    ELSE [panic |-> "",
          liquidity |-> Div(Mul(totalSupply, amount0), pd.Reserve0),
          amount1 |-> Div(Mul(amount0, pd.Reserve1), pd.Reserve0)]

\* Pair.Mint; the amount1 passed in is overwritten by the computed one.
Mint(s, p, amount0, amount1, totalSupply) ==
    LET c == CalculateAddLiquidity(View(s, p), amount0, totalSupply)
    IN  IF c.panic # "" THEN [s |-> s, panic |-> c.panic, liquidity |-> Nil]
        ELSE IF Sign(c.liquidity) # 1
        THEN [s |-> s, panic |-> ErrorInsufficientLiquidityMinted, liquidity |-> Nil]
        ELSE [s |-> update(s, p, amount0, c.amount1), panic |-> "",
              liquidity |-> c.liquidity]

\* startingSupply without the square root: a faulty variant, which C6 must
\* tell from the code.
startingSupplyProduct(amount0, amount1) == Mul(amount0, amount1)

\* startingSupply
startingSupply(amount0, amount1) == Sqrt(Mul(amount0, amount1))

\* Pair.Create
Create(s, p, amount0, amount1) ==
    LET liquidity == startingSupply(amount0, amount1)
    IN  IF Cmp(liquidity, Bound) # 1
        THEN [s |-> s, panic |-> ErrorInsufficientLiquidityMinted, liquidity |-> Nil]
        ELSE [s |-> update(s, p, amount0, amount1), panic |-> "",
              liquidity |-> liquidity]

\* Pair.CheckMint
CheckMint(pd, amount0, maxAmount1, totalSupply) ==
    LET c == CalculateAddLiquidity(pd, amount0, totalSupply)
    IN  IF c.panic # "" THEN [panic |-> c.panic, err |-> ""]
        ELSE IF Cmp(c.amount1, maxAmount1) = 1
        THEN [panic |-> "", err |-> ErrorInsufficientInputAmount]
        ELSE IF Sign(c.liquidity) # 1
        THEN [panic |-> "", err |-> ErrorInsufficientLiquidityMinted]
        ELSE [panic |-> "", err |-> ""]

\* Pair.CheckCreate
CheckCreate(amount0, maxAmount1) ==
    IF Cmp(startingSupply(amount0, maxAmount1), Bound) # 1
    THEN ErrorInsufficientLiquidityMinted
    ELSE ""

\* Pair.Amounts; big.Int.Div panics on a zero totalSupply.
Amounts(pd, liquidity, totalSupply) ==
    IF Sign(totalSupply) = 0
    THEN [panic |-> PanicDivisionByZero, amount0 |-> Nil, amount1 |-> Nil]
    ELSE [panic |-> "",
          amount0 |-> Div(Mul(liquidity, pd.Reserve0), totalSupply),
          amount1 |-> Div(Mul(liquidity, pd.Reserve1), totalSupply)]

\* Pair.Burn without the comparison of amount1 with its minimum: a faulty
\* variant, which C9 must tell from the code.
BurnUnchecked(s, p, liquidity, minAmount0, minAmount1, totalSupply) ==
    LET a == Amounts(View(s, p), liquidity, totalSupply)
    IN  IF a.panic # ""
        THEN [s |-> s, panic |-> a.panic, amount0 |-> Nil, amount1 |-> Nil]
        ELSE IF Cmp(a.amount0, minAmount0) = -1
        THEN [s |-> s, panic |-> ErrorInsufficientLiquidityBurned,
              amount0 |-> Nil, amount1 |-> Nil]
        ELSE [s |-> update(s, p, Neg(a.amount0), Neg(a.amount1)), panic |-> "",
              amount0 |-> a.amount0, amount1 |-> a.amount1]

\* Pair.Burn
Burn(s, p, liquidity, minAmount0, minAmount1, totalSupply) ==
    LET a == Amounts(View(s, p), liquidity, totalSupply)
    IN  IF a.panic # ""
        THEN [s |-> s, panic |-> a.panic, amount0 |-> Nil, amount1 |-> Nil]
        ELSE IF Cmp(a.amount0, minAmount0) = -1 \/ Cmp(a.amount1, minAmount1) = -1
        THEN [s |-> s, panic |-> ErrorInsufficientLiquidityBurned,
              amount0 |-> Nil, amount1 |-> Nil]
        ELSE [s |-> update(s, p, Neg(a.amount0), Neg(a.amount1)), panic |-> "",
              amount0 |-> a.amount0, amount1 |-> a.amount1]

\* Pair.CheckBurn, on the pairData pd of a *Pair, Nil for a nil *Pair
CheckBurn(pd, liquidity, minAmount0, minAmount1, totalSupply) ==
    IF pd = Nil THEN [panic |-> "", err |-> ErrorNotExist]
    ELSE LET a == Amounts(pd, liquidity, totalSupply)
         IN  IF a.panic # "" THEN [panic |-> a.panic, err |-> ""]
             ELSE IF Cmp(a.amount0, minAmount0) = -1 \/ Cmp(a.amount1, minAmount1) = -1
             THEN [panic |-> "", err |-> ErrorInsufficientLiquidityBurned]
             ELSE [panic |-> "", err |-> ""]

(***************************************************************************)
(* Pair: constant-product swap                                             *)
(***************************************************************************)

\* Pair.CalculateBuyForSell without the unit taken off the quotient's
\* complement: a faulty variant, which C3 must tell from the code.
CalculateBuyForSellNoNudge(pd, amount0In) ==
    LET reserve0 == pd.Reserve0
        reserve1 == pd.Reserve1
        kAdjusted == Mul(Mul(reserve0, reserve1), Big(1000000))
        balance0Adjusted ==
            Sub(Mul(Add(amount0In, reserve0), Big(1000)),
                Mul(amount0In, Big(commission)))
        divisor == Mul(balance0Adjusted, Big(1000))
    IN  IF Sign(divisor) = 0 THEN [panic |-> PanicDivisionByZero, v |-> Nil]
        ELSE LET amount1Out == Sub(reserve1, Quo(kAdjusted, divisor))
             IN  [panic |-> "",
                  v |-> IF Sign(amount1Out) # 1 THEN Nil ELSE amount1Out]

\* Pair.CalculateBuyForSell: nil when the amount is not positive; big.Int.Quo
\* panics when the adjusted balance is zero.
CalculateBuyForSell(pd, amount0In) ==
    LET reserve0 == pd.Reserve0
        reserve1 == pd.Reserve1
        kAdjusted == Mul(Mul(reserve0, reserve1), Big(1000000))
        balance0Adjusted ==
            Sub(Mul(Add(amount0In, reserve0), Big(1000)),
                Mul(amount0In, Big(commission)))
        divisor == Mul(balance0Adjusted, Big(1000))
    IN  IF Sign(divisor) = 0 THEN [panic |-> PanicDivisionByZero, v |-> Nil]
        ELSE LET amount1Out == Sub(Sub(reserve1, Quo(kAdjusted, divisor)), Big(1))
             IN  [panic |-> "",
                  v |-> IF Sign(amount1Out) # 1 THEN Nil ELSE amount1Out]

\* Pair.CalculateSellForBuy without the unit added to the quotient: a faulty
\* variant, which C2 must tell from the code.
CalculateSellForBuyNoNudge(pd, amount1Out) ==
    LET reserve0 == pd.Reserve0
        reserve1 == pd.Reserve1
    IN  IF Cmp(amount1Out, reserve1) # -1 THEN Nil
        ELSE LET kAdjusted == Mul(Mul(reserve0, reserve1), Big(1000000))
                 balance1Adjusted == Mul(Add(Neg(amount1Out), reserve1), Big(1000))
             IN  Quo(Sub(Quo(kAdjusted, balance1Adjusted), Mul(reserve0, Big(1000))),
                     Big(1000 - commission))

\* Pair.CalculateSellForBuy dividing by 1000 instead of 1000 - commission: a
\* faulty variant, which C4 must tell from the code.
CalculateSellForBuyNoCommission(pd, amount1Out) ==
    LET reserve0 == pd.Reserve0
        reserve1 == pd.Reserve1
    IN  IF Cmp(amount1Out, reserve1) # -1 THEN Nil
        ELSE LET kAdjusted == Mul(Mul(reserve0, reserve1), Big(1000000))
                 balance1Adjusted == Mul(Add(Neg(amount1Out), reserve1), Big(1000))
             IN  Add(Quo(Sub(Quo(kAdjusted, balance1Adjusted),
                             Mul(reserve0, Big(1000))),
                         Big(1000)),
                     Big(1))

\* Pair.CalculateSellForBuy: nil when amount1Out is not below reserve1.
CalculateSellForBuy(pd, amount1Out) ==
    LET reserve0 == pd.Reserve0
        reserve1 == pd.Reserve1
    IN  IF Cmp(amount1Out, reserve1) = 1 THEN Nil
        ELSE IF Cmp(amount1Out, reserve1) # -1 THEN Nil
        ELSE LET k == Mul(reserve0, reserve1)
                 kAdjusted == Mul(k, Big(1000000))
                 balance1Adjusted == Mul(Add(Neg(amount1Out), reserve1), Big(1000))
                 amount0In ==
                     Quo(Sub(Quo(kAdjusted, balance1Adjusted),
                             Mul(reserve0, Big(1000))),
                         Big(1000 - commission))
             IN  Add(amount0In, Big(1))

\* The k-check comparing with reserve0 * reserve1 not scaled by 1000000: a
\* faulty variant, which C1 must tell from the code.
KHoldsUnscaled(pd, amount0In, amount1In, amount0, amount1) ==
    LET balance0Adjusted ==
            Sub(Mul(Add(amount0, pd.Reserve0), Big(1000)),
                Mul(amount0In, Big(commission)))
        balance1Adjusted ==
            Sub(Mul(Add(amount1, pd.Reserve1), Big(1000)),
                Mul(amount1In, Big(commission)))
    IN  Cmp(Mul(balance0Adjusted, balance1Adjusted),
            Mul(pd.Reserve0, pd.Reserve1)) # -1

\* The k-check of Pair.Swap and Pair.checkSwap: the product of the adjusted
\* balances is not below reserve0 * reserve1 * 1000000.
KHolds(pd, amount0In, amount1In, amount0, amount1) ==
    LET balance0Adjusted ==
            Sub(Mul(Add(amount0, pd.Reserve0), Big(1000)),
                Mul(amount0In, Big(commission)))
        balance1Adjusted ==
            Sub(Mul(Add(amount1, pd.Reserve1), Big(1000)),
                Mul(amount1In, Big(commission)))
    IN  Cmp(Mul(balance0Adjusted, balance1Adjusted),
            Mul(Mul(pd.Reserve0, pd.Reserve1), Big(1000000))) # -1

\* Pair.Swap
Swap(s, p, amount0In, amount1In, amount0Out, amount1Out) ==
    LET pd == View(s, p)
        amount0 == Sub(amount0In, amount0Out)
        amount1 == Sub(amount1In, amount1Out)
        fail(e) == [s |-> s, panic |-> e, amount0 |-> Nil, amount1 |-> Nil]
    IN  IF Sign(amount0Out) # 1 /\ Sign(amount1Out) # 1
        THEN fail(ErrorInsufficientOutputAmount)
        ELSE IF Cmp(amount0Out, pd.Reserve0) = 1 \/ Cmp(amount1Out, pd.Reserve1) = 1
        THEN fail(ErrorInsufficientLiquidity)
        ELSE IF Sign(amount0) # 1 /\ Sign(amount1) # 1
        THEN fail(ErrorInsufficientInputAmount)
        ELSE IF ~KHolds(pd, amount0In, amount1In, amount0, amount1)
        THEN fail(ErrorK)
        ELSE [s |-> update(s, p, amount0, amount1), panic |-> "",
              amount0 |-> amount0, amount1 |-> amount1]

\* Pair.checkSwap
checkSwap(pd, amount0In, amount1In, amount0Out, amount1Out) ==
    LET amount0 == Sub(amount0In, amount0Out)
        amount1 == Sub(amount1In, amount1Out)
    IN  IF Cmp(amount0Out, pd.Reserve0) = 1 \/ Cmp(amount1Out, pd.Reserve1) = 1
        THEN ErrorInsufficientLiquidity
        ELSE IF Sign(amount0Out) # 1 /\ Sign(amount1Out) # 1
        THEN ErrorInsufficientOutputAmount
        ELSE IF Sign(amount0) # 1 /\ Sign(amount1) # 1
        THEN ErrorInsufficientInputAmount
        ELSE IF ~KHolds(pd, amount0In, amount1In, amount0, amount1)
        THEN ErrorK
        ELSE ""

(***************************************************************************)
(* Swap: the calls of the registry                                         *)
(*                                                                         *)
(* Each operator gives the outcome of one call on the registry s: the      *)
(* registry afterwards, the panic that ended the call ("" if none), the    *)
(* error returned ("" if nil), the values returned, and the deltas sent to *)
(* the checker bus.  A call that panics keeps what it changed before.      *)
(***************************************************************************)

Returned(s, ret, add) ==
    [s |-> s, panic |-> "", err |-> "", ret |-> ret, add |-> add]

Failed(s, err) ==
    [s |-> s, panic |-> "", err |-> err, ret |-> <<>>, add |-> <<>>]

Panicked(s, panic) ==
    [s |-> s, panic |-> panic, err |-> "", ret |-> <<>>, add |-> <<>>]

\* Swap.PairCalculateBuyForSell
PairCalculateBuyForSell(s, coin0, coin1, amount0In) ==
    LET g == Pair(s, coin0, coin1)
    IN  IF g.p.nil THEN Failed(g.s, ErrorNotExist)
        ELSE LET value == CalculateBuyForSell(View(g.s, g.p), amount0In)
             IN  IF value.panic # "" THEN Panicked(g.s, value.panic)
                 ELSE IF value.v = Nil THEN Failed(g.s, ErrorInsufficientLiquidity)
                 ELSE Returned(g.s, <<value.v>>, <<>>)

\* Swap.PairCalculateSellForBuy
PairCalculateSellForBuy(s, coin0, coin1, amount1Out) ==
    LET g == Pair(s, coin0, coin1)
    IN  IF g.p.nil THEN Failed(g.s, ErrorNotExist)
        ELSE LET value == CalculateSellForBuy(View(g.s, g.p), amount1Out)
             IN  IF value = Nil THEN Failed(g.s, ErrorInsufficientLiquidity)
                 ELSE Returned(g.s, <<value>>, <<>>)

\* Swap.PairMint: returns <<balance0, balance1, liquidity>>
PairMint(s, coin0, coin1, amount0, maxAmount1, totalSupply) ==
    LET g == Pair(s, coin0, coin1)
    IN  IF g.p.nil THEN Panicked(g.s, PanicNilDereference)
        ELSE LET old == Reserves(View(g.s, g.p))
                 m == Mint(g.s, g.p, amount0, maxAmount1, totalSupply)
                 new == Reserves(View(m.s, g.p))
                 balance0 == Sub(new[1], old[1])
                 balance1 == Sub(new[2], old[2])
             IN  IF m.panic # "" THEN Panicked(m.s, m.panic)
                 ELSE Returned(m.s, <<balance0, balance1, m.liquidity>>,
                               <<<<coin0, balance0>>, <<coin1, balance1>>>>)

\* Swap.PairCreate: returns <<balance0, balance1, liquidity, id>>
PairCreate(s, coin0, coin1, amount0, amount1) ==
    LET rp == ReturnPair(s, coin0, coin1)
    IN  IF rp.panic # "" THEN Panicked(rp.s, rp.panic)
        ELSE LET inc == incID(rp.s)
                 s1 == [inc.s EXCEPT !.pairs[rp.p.key].data.ID = inc.id]
                 old == Reserves(View(s1, rp.p))
                 c == Create(s1, rp.p, amount0, amount1)
                 new == Reserves(View(c.s, rp.p))
                 balance0 == Sub(new[1], old[1])
                 balance1 == Sub(new[2], old[2])
             IN  IF c.panic # "" THEN Panicked(c.s, c.panic)
                 ELSE Returned(c.s, <<balance0, balance1, c.liquidity, inc.id>>,
                               <<<<coin0, balance0>>, <<coin1, balance1>>>>)

\* PairBurn that sends the checker what left the reserves without negating
\* it: a faulty variant.
PairBurnUnnegated(s, coin0, coin1, liquidity, minAmount0, minAmount1, totalSupply) ==
    LET g == Pair(s, coin0, coin1)
    IN  IF g.p.nil THEN Panicked(g.s, PanicNilDereference)
        ELSE LET old == Reserves(View(g.s, g.p))
                 b == Burn(g.s, g.p, liquidity, minAmount0, minAmount1, totalSupply)
                 new == Reserves(View(b.s, g.p))
                 balance0 == Sub(old[1], new[1])
                 balance1 == Sub(old[2], new[2])
             IN  IF b.panic # "" THEN Panicked(b.s, b.panic)
                 ELSE Returned(b.s, <<balance0, balance1>>,
                               <<<<coin0, balance0>>, <<coin1, balance1>>>>)

\* Swap.PairBurn: returns <<balance0, balance1>>
PairBurn(s, coin0, coin1, liquidity, minAmount0, minAmount1, totalSupply) ==
    LET g == Pair(s, coin0, coin1)
    IN  IF g.p.nil THEN Panicked(g.s, PanicNilDereference)
        ELSE LET old == Reserves(View(g.s, g.p))
                 b == Burn(g.s, g.p, liquidity, minAmount0, minAmount1, totalSupply)
                 new == Reserves(View(b.s, g.p))
                 balance0 == Sub(old[1], new[1])
                 balance1 == Sub(old[2], new[2])
             IN  IF b.panic # "" THEN Panicked(b.s, b.panic)
                 ELSE Returned(b.s, <<balance0, balance1>>,
                               <<<<coin0, Neg(balance0)>>, <<coin1, Neg(balance1)>>>>)

\* PairSell without the comparison with minAmount1Out: a faulty variant.
PairSellUnbounded(s, coin0, coin1, amount0In, minAmount1Out) ==
    LET g == Pair(s, coin0, coin1)
    IN  IF g.p.nil THEN Panicked(g.s, PanicNilDereference)
        ELSE LET calc == CalculateBuyForSell(View(g.s, g.p), amount0In)
             IN  IF calc.panic # "" THEN Panicked(g.s, calc.panic)
                 ELSE IF calc.v = Nil THEN Panicked(g.s, PanicNilDereference)
                 ELSE LET sw == Swap(g.s, g.p, amount0In, Big(0), Big(0), calc.v)
                      IN  IF sw.panic # "" THEN Panicked(sw.s, sw.panic)
                          ELSE Returned(sw.s,
                                   <<sw.amount0, Neg(sw.amount1), View(sw.s, g.p).ID>>,
                                   <<<<coin0, sw.amount0>>, <<coin1, sw.amount1>>>>)

\* Swap.PairSell: returns <<balance0, -balance1, id>>
PairSell(s, coin0, coin1, amount0In, minAmount1Out) ==
    LET g == Pair(s, coin0, coin1)
    IN  IF g.p.nil THEN Panicked(g.s, PanicNilDereference)
        ELSE LET calc == CalculateBuyForSell(View(g.s, g.p), amount0In)
             IN  IF calc.panic # "" THEN Panicked(g.s, calc.panic)
                 ELSE IF calc.v = Nil THEN Panicked(g.s, PanicNilDereference)
                 ELSE IF Cmp(calc.v, minAmount1Out) = -1
                 THEN Panicked(g.s, PanicLessMin)
                 ELSE LET sw == Swap(g.s, g.p, amount0In, Big(0), Big(0), calc.v)
                      IN  IF sw.panic # "" THEN Panicked(sw.s, sw.panic)
                          ELSE Returned(sw.s,
                                   <<sw.amount0, Neg(sw.amount1), View(sw.s, g.p).ID>>,
                                   <<<<coin0, sw.amount0>>, <<coin1, sw.amount1>>>>)

\* Swap.PairBuy: returns <<balance0, -balance1, id>>
PairBuy(s, coin0, coin1, maxAmount0In, amount1Out) ==
    LET g == Pair(s, coin0, coin1)
    IN  IF g.p.nil THEN Panicked(g.s, PanicNilDereference)
        ELSE LET calc == CalculateSellForBuy(View(g.s, g.p), amount1Out)
             IN  IF calc = Nil THEN Panicked(g.s, PanicNilDereference)
                 ELSE IF Cmp(calc, maxAmount0In) = 1
                 THEN Panicked(g.s, PanicMoreMax)
                 ELSE LET sw == Swap(g.s, g.p, calc, Big(0), Big(0), amount1Out)
                      IN  IF sw.panic # "" THEN Panicked(sw.s, sw.panic)
                          ELSE Returned(sw.s,
                                   <<sw.amount0, Neg(sw.amount1), View(sw.s, g.p).ID>>,
                                   <<<<coin0, sw.amount0>>, <<coin1, sw.amount1>>>>)

(***************************************************************************)
(* Calls on the *Pair that Swap.Pair (GetSwapper) returns                  *)
(***************************************************************************)

\* s.Pair(coin0, coin1).CalculateBuyForSell(amount0In): <<amount1Out>>, or
\* <<Nil>> for a nil result.
PairDoCalculateBuyForSell(s, coin0, coin1, amount0In) ==
    LET g == Pair(s, coin0, coin1)
    IN  IF g.p.nil THEN Panicked(g.s, PanicNilDereference)
        ELSE LET value == CalculateBuyForSell(View(g.s, g.p), amount0In)
             IN  IF value.panic # "" THEN Panicked(g.s, value.panic)
                 ELSE Returned(g.s, <<value.v>>, <<>>)

\* s.Pair(coin0, coin1).CalculateSellForBuy(amount1Out)
PairDoCalculateSellForBuy(s, coin0, coin1, amount1Out) ==
    LET g == Pair(s, coin0, coin1)
    IN  IF g.p.nil THEN Panicked(g.s, PanicNilDereference)
        ELSE Returned(g.s, <<CalculateSellForBuy(View(g.s, g.p), amount1Out)>>, <<>>)

\* Pair.CheckSwap
PairDoCheckSwap(s, coin0, coin1, amount0In, amount1Out) ==
    LET g == Pair(s, coin0, coin1)
    IN  IF g.p.nil THEN Panicked(g.s, PanicNilDereference)
        ELSE LET e == checkSwap(View(g.s, g.p), amount0In, Big(0), Big(0), amount1Out)
             IN  IF e # "" THEN Failed(g.s, e) ELSE Returned(g.s, <<>>, <<>>)

\* s.Pair(coin0, coin1).Swap(...): returns <<amount0, amount1>>
PairDoSwap(s, coin0, coin1, amount0In, amount1In, amount0Out, amount1Out) ==
    LET g == Pair(s, coin0, coin1)
    IN  IF g.p.nil
        THEN (IF Sign(amount0Out) # 1 /\ Sign(amount1Out) # 1
              THEN Panicked(g.s, ErrorInsufficientOutputAmount)
              ELSE Panicked(g.s, PanicNilDereference))
        ELSE LET sw == Swap(g.s, g.p, amount0In, amount1In, amount0Out, amount1Out)
             IN  IF sw.panic # "" THEN Panicked(sw.s, sw.panic)
                 ELSE Returned(sw.s, <<sw.amount0, sw.amount1>>, <<>>)

\* s.Pair(coin0, coin1).CheckMint(...)
PairDoCheckMint(s, coin0, coin1, amount0, maxAmount1, totalSupply) ==
    LET g == Pair(s, coin0, coin1)
    IN  IF g.p.nil THEN Panicked(g.s, PanicNilDereference)
        ELSE LET c == CheckMint(View(g.s, g.p), amount0, maxAmount1, totalSupply)
             IN  IF c.panic # "" THEN Panicked(g.s, c.panic)
                 ELSE IF c.err # "" THEN Failed(g.s, c.err)
                 ELSE Returned(g.s, <<>>, <<>>)

\* s.Pair(coin0, coin1).CheckBurn(...)
PairDoCheckBurn(s, coin0, coin1, liquidity, minAmount0, minAmount1, totalSupply) ==
    LET g == Pair(s, coin0, coin1)
        c == CheckBurn(IF g.p.nil THEN Nil ELSE View(g.s, g.p),
                       liquidity, minAmount0, minAmount1, totalSupply)
    IN  IF c.panic # "" THEN Panicked(g.s, c.panic)
        ELSE IF c.err # "" THEN Failed(g.s, c.err)
        ELSE Returned(g.s, <<>>, <<>>)

\* s.Pair(coin0, coin1).CheckCreate(...): the receiver is not read, so a nil
\* *Pair is checked like any other.
PairDoCheckCreate(s, coin0, coin1, amount0, maxAmount1) ==
    LET g == Pair(s, coin0, coin1)
        e == CheckCreate(amount0, maxAmount1)
    IN  IF e # "" THEN Failed(g.s, e) ELSE Returned(g.s, <<>>, <<>>)

\* s.Pair(coin0, coin1).CalculateAddLiquidity(...): <<liquidity, amount1>>
PairDoCalculateAddLiquidity(s, coin0, coin1, amount0, totalSupply) ==
    LET g == Pair(s, coin0, coin1)
    IN  IF g.p.nil THEN Panicked(g.s, PanicNilDereference)
        ELSE LET c == CalculateAddLiquidity(View(g.s, g.p), amount0, totalSupply)
             IN  IF c.panic # "" THEN Panicked(g.s, c.panic)
                 ELSE Returned(g.s, <<c.liquidity, c.amount1>>, <<>>)

\* s.Pair(coin0, coin1).Amounts(...): <<amount0, amount1>>
PairDoAmounts(s, coin0, coin1, liquidity, totalSupply) ==
    LET g == Pair(s, coin0, coin1)
    IN  IF g.p.nil THEN Panicked(g.s, PanicNilDereference)
        ELSE LET a == Amounts(View(g.s, g.p), liquidity, totalSupply)
             IN  IF a.panic # "" THEN Panicked(g.s, a.panic)
                 ELSE Returned(g.s, <<a.amount0, a.amount1>>, <<>>)

\* Pair.AddLastSwapStep: the pairData of the new *Pair, built from copies of
\* the reserves.
AddLastSwapStep(pd, amount0In, amount1Out) ==
    PairData(Add(pd.Reserve0, amount0In), Sub(pd.Reserve1, amount1Out), pd.ID)

\* AddLastSwapStep adding to the reserves of the pair itself: a faulty
\* variant, which C23 must tell from the code.
PairDoAddLastSwapStepInPlace(s, coin0, coin1, amount0In, amount1Out) ==
    LET g == Pair(s, coin0, coin1)
    IN  IF g.p.nil THEN Panicked(g.s, PanicNilDereference)
        ELSE Returned(update(g.s, g.p, amount0In, Neg(amount1Out)),
                      <<AddLastSwapStep(View(g.s, g.p), amount0In, amount1Out)>>,
                      <<>>)

\* s.Pair(coin0, coin1).AddLastSwapStep(...): <<the pairData of the result>>
PairDoAddLastSwapStep(s, coin0, coin1, amount0In, amount1Out) ==
    LET g == Pair(s, coin0, coin1)
    IN  IF g.p.nil THEN Panicked(g.s, PanicNilDereference)
        ELSE Returned(g.s,
                      <<AddLastSwapStep(View(g.s, g.p), amount0In, amount1Out)>>,
                      <<>>)

\* Swap.SwapPool: the registry afterwards and <<reserve0, reserve1, id>>
SwapPool(s, coinA, coinB) ==
    LET g == Pair(s, coinA, coinB)
    IN  IF g.p.nil THEN [s |-> g.s, ret |-> <<Nil, Nil, 0>>]
        ELSE [s |-> g.s,
              ret |-> <<Reserves(View(g.s, g.p))[1], Reserves(View(g.s, g.p))[2],
                        View(g.s, g.p).ID>>]

\* Swap.SwapPoolExist
SwapPoolExist(s, coin0, coin1) ==
    [s |-> Pair(s, coin0, coin1).s, ret |-> ~Pair(s, coin0, coin1).p.nil]

(***************************************************************************)
(* bus.Checker                                                             *)
(***************************************************************************)

\* Checker.AddCoin(coin, value)
AddCoin(ch, coin, value) == [ch EXCEPT ![coin] = Add(@, value)]

RECURSIVE AddCoins(_, _)
\* The checker after the deltas add = <<<<coin, value>>, ...>> of a call, in
\* the order they were sent.
AddCoins(ch, add) ==
    IF add = <<>> THEN ch
    ELSE AddCoins(AddCoin(ch, add[1][1], add[1][2]), Tail(add))

(***************************************************************************)
(* Actions: one call each                                                  *)
(***************************************************************************)

\* What SwapPool(coin0, coin1) would read before the call: the pairData seen
\* from the caller's side, or Nil if there is no such pair.
Pre(s, coin0, coin1) ==
    LET g == Pair(s, coin0, coin1)
    IN  IF g.p.nil THEN Nil ELSE View(g.s, g.p)

\* The call op(coin0, coin1, args) is made on the registry and ends with the
\* outcome out; last records the call, the registry it was made on (reg), the
\* pair as it was seen before (pre), and how the call ended.
Step(op, coin0, coin1, args, out) ==
    /\ pairs' = out.s.pairs
    /\ dirties' = out.s.dirties
    /\ nextID' = out.s.nextID
    /\ dirtyNextID' = out.s.dirtyNextID
    /\ checker' = AddCoins(checker, out.add)
    /\ last' = [op |-> op, coins |-> <<coin0, coin1>>, args |-> args,
                reg |-> Self, pre |-> Pre(Self, coin0, coin1),
                panic |-> out.panic, err |-> out.err, ret |-> out.ret]
    /\ prev' = last
    /\ steps' = steps + 1
    /\ modified' = modified \cup
           {k \in Keys : Pre(out.s, k[1], k[2]) # Pre(Self, k[1], k[2])}
    /\ handed' = IF out.s.nextID # nextID THEN handed \cup {out.s.nextID - 1} ELSE handed
    /\ UNCHANGED <<locks, votes, db, tree, book, ledger, genesis>>

DoPairCreate(c0, c1, a0, a1) ==
    Step("PairCreate", c0, c1, <<a0, a1>>, PairCreate(Self, c0, c1, a0, a1))

DoPairMint(c0, c1, a0, maxA1, ts) ==
    Step("PairMint", c0, c1, <<a0, maxA1, ts>>, PairMint(Self, c0, c1, a0, maxA1, ts))

DoPairBurn(c0, c1, l, min0, min1, ts) ==
    Step("PairBurn", c0, c1, <<l, min0, min1, ts>>,
         PairBurn(Self, c0, c1, l, min0, min1, ts))

DoPairSell(c0, c1, a0In, min1) ==
    Step("PairSell", c0, c1, <<a0In, min1>>, PairSell(Self, c0, c1, a0In, min1))

DoPairBuy(c0, c1, max0, a1Out) ==
    Step("PairBuy", c0, c1, <<max0, a1Out>>, PairBuy(Self, c0, c1, max0, a1Out))

DoPairCalculateBuyForSell(c0, c1, a0In) ==
    Step("PairCalculateBuyForSell", c0, c1, <<a0In>>,
         PairCalculateBuyForSell(Self, c0, c1, a0In))

DoPairCalculateSellForBuy(c0, c1, a1Out) ==
    Step("PairCalculateSellForBuy", c0, c1, <<a1Out>>,
         PairCalculateSellForBuy(Self, c0, c1, a1Out))

DoCalculateBuyForSell(c0, c1, a0In) ==
    Step("CalculateBuyForSell", c0, c1, <<a0In>>,
         PairDoCalculateBuyForSell(Self, c0, c1, a0In))

DoCalculateSellForBuy(c0, c1, a1Out) ==
    Step("CalculateSellForBuy", c0, c1, <<a1Out>>,
         PairDoCalculateSellForBuy(Self, c0, c1, a1Out))

DoCheckSwap(c0, c1, a0In, a1Out) ==
    Step("CheckSwap", c0, c1, <<a0In, a1Out>>, PairDoCheckSwap(Self, c0, c1, a0In, a1Out))

DoSwap(c0, c1, a0In, a1In, a0Out, a1Out) ==
    Step("Swap", c0, c1, <<a0In, a1In, a0Out, a1Out>>,
         PairDoSwap(Self, c0, c1, a0In, a1In, a0Out, a1Out))

DoCheckMint(c0, c1, a0, maxA1, ts) ==
    Step("CheckMint", c0, c1, <<a0, maxA1, ts>>,
         PairDoCheckMint(Self, c0, c1, a0, maxA1, ts))

DoCheckBurn(c0, c1, l, min0, min1, ts) ==
    Step("CheckBurn", c0, c1, <<l, min0, min1, ts>>,
         PairDoCheckBurn(Self, c0, c1, l, min0, min1, ts))

DoCheckCreate(c0, c1, a0, maxA1) ==
    Step("CheckCreate", c0, c1, <<a0, maxA1>>, PairDoCheckCreate(Self, c0, c1, a0, maxA1))

DoCalculateAddLiquidity(c0, c1, a0, ts) ==
    Step("CalculateAddLiquidity", c0, c1, <<a0, ts>>,
         PairDoCalculateAddLiquidity(Self, c0, c1, a0, ts))

DoAmounts(c0, c1, l, ts) ==
    Step("Amounts", c0, c1, <<l, ts>>, PairDoAmounts(Self, c0, c1, l, ts))

DoAddLastSwapStep(c0, c1, a0In, a1Out) ==
    Step("AddLastSwapStep", c0, c1, <<a0In, a1Out>>,
         PairDoAddLastSwapStep(Self, c0, c1, a0In, a1Out))

\* The state before any call.
NoCall ==
    [op |-> "", coins |-> <<0, 0>>, args |-> <<>>, reg |-> Nil, pre |-> Nil,
     panic |-> "", err |-> "", ret |-> <<>>]

\* The pair (coin0, coin1) of the last call as the registry has it now.
Now == Pre(Self, last.coins[1], last.coins[2])

(***************************************************************************)
(* Spec: sequences of calls on a registry                                  *)
(***************************************************************************)

\* Number of calls in a run.
MaxSteps == 2

\* A tree in which the pair (1, 2) was committed with the reserves given.
PoolTree(r0, r1) ==
    [data |-> [k \in Keys |-> IF k = <<1, 2>> THEN Record(r0, r1, 1) ELSE NoRecord],
     nextID |-> 2, kv |-> <<>>]

\* The registry starts on an empty tree, or on one with a pair committed.
SpecTrees == {EmptyTree, PoolTree(Big(10000), Big(40000))}

\* The (coin0, coin1) a pair is created with, and those of the other calls.
SpecPairs == {<<1, 2>>, <<2, 1>>, <<1, 3>>}

TradedPairs == {<<1, 2>>, <<2, 1>>}

Init ==
    /\ \E t \in SpecTrees : New(t)
    /\ Started
    /\ last = NoCall
    /\ prev = NoCall
    /\ steps = 0

CreateArgs ==
    {<<Big(10000), Big(40000)>>, <<Big(1000), Big(1000)>>,
     <<Big(1000), Big(1003)>>, <<Big(0), Big(5)>>}

MintArgs == {<<Big(1000), Big(4000), Big(20000)>>, <<Big(1000), Big(0), Big(20000)>>}

BurnArgs ==
    {<<Big(20000), Big(0), Big(0), Big(20000)>>,
     <<Big(1000), Big(0), Big(0), Big(20000)>>,
     <<Big(1000), Big(501), Big(0), Big(20000)>>}

SellArgs == {<<Big(1000), Big(0)>>, <<Big(1000), Big(5000)>>}

BuyArgs == {<<Big(2000), Big(1000)>>, <<Big(0), Big(1000)>>}

QuoteArgs == {Big(0), Big(1000), Big(50000)}

CallPairCreate ==
    /\ steps < MaxSteps
    /\ \E c \in SpecPairs \cup {<<1, 1>>}, a \in CreateArgs :
           DoPairCreate(c[1], c[2], a[1], a[2])

CallPairMint ==
    /\ steps < MaxSteps
    /\ \E c \in TradedPairs, a \in MintArgs : DoPairMint(c[1], c[2], a[1], a[2], a[3])

CallPairBurn ==
    /\ steps < MaxSteps
    /\ \E c \in TradedPairs, a \in BurnArgs :
           DoPairBurn(c[1], c[2], a[1], a[2], a[3], a[4])

CallPairSell ==
    /\ steps < MaxSteps
    /\ \E c \in TradedPairs, a \in SellArgs : DoPairSell(c[1], c[2], a[1], a[2])

CallPairBuy ==
    /\ steps < MaxSteps
    /\ \E c \in TradedPairs, a \in BuyArgs : DoPairBuy(c[1], c[2], a[1], a[2])

CallPairCalculateBuyForSell ==
    /\ steps < MaxSteps
    /\ \E c \in TradedPairs, a \in QuoteArgs : DoPairCalculateBuyForSell(c[1], c[2], a)

CallPairCalculateSellForBuy ==
    /\ steps < MaxSteps
    /\ \E c \in TradedPairs, a \in QuoteArgs : DoPairCalculateSellForBuy(c[1], c[2], a)

CallCheckBurn ==
    /\ steps < MaxSteps
    /\ \E c \in TradedPairs, a \in BurnArgs :
           DoCheckBurn(c[1], c[2], a[1], a[2], a[3], a[4])

Next ==
    \/ CallPairCreate
    \/ CallPairMint
    \/ CallPairBurn
    \/ CallPairSell
    \/ CallPairBuy
    \/ CallPairCalculateBuyForSell
    \/ CallPairCalculateSellForBuy
    \/ CallCheckBurn

Spec == Init /\ [][Next]_vars

(***************************************************************************)
(* PoolSpec: one call on a pool, over a range of reserves and amounts      *)
(***************************************************************************)

\* Largest reserve of the pools of the range.
MaxReserve == 8

\* Largest amount of the calls of the range.
MaxAmount == 8

\* The reserves of the pair (1, 2) in the tree: the range, and two pools of
\* the size of real ones.
PoolReserves ==
    ((1..MaxReserve) \X (1..MaxReserve))
        \cup {<<1000000, 1000000>>, <<10000, 40000>>}

\* The pool seen from either side.
PoolPairs == {<<1, 2>>, <<2, 1>>}

Amounts0 == {Big(n) : n \in (0..MaxAmount) \cup {1000}}

PoolInit ==
    /\ \E r \in PoolReserves : New(PoolTree(Big(r[1]), Big(r[2])))
    /\ Started
    /\ last = NoCall
    /\ prev = NoCall
    /\ steps = 0

PoolCalculateBuyForSell ==
    /\ steps = 0
    /\ \E c \in PoolPairs, a \in Amounts0 : DoCalculateBuyForSell(c[1], c[2], a)

PoolCalculateSellForBuy ==
    /\ steps = 0
    /\ \E c \in PoolPairs, a \in Amounts0 : DoCalculateSellForBuy(c[1], c[2], a)

\* CheckSwap on the amount just quoted by CalculateBuyForSell.
PoolCheckBuyQuote ==
    /\ steps = 1
    /\ last.op = "CalculateBuyForSell"
    /\ last.panic = ""
    /\ last.ret[1] # Nil
    /\ DoCheckSwap(last.coins[1], last.coins[2], last.args[1], last.ret[1])

\* CheckSwap on the amount just quoted by CalculateSellForBuy.
PoolCheckSellQuote ==
    /\ steps = 1
    /\ last.op = "CalculateSellForBuy"
    /\ last.panic = ""
    /\ last.ret[1] # Nil
    /\ DoCheckSwap(last.coins[1], last.coins[2], last.ret[1], last.args[1])

PoolCheckSwap ==
    /\ steps = 0
    /\ \E c \in PoolPairs, a0In \in Amounts0, a1Out \in Amounts0 :
           DoCheckSwap(c[1], c[2], a0In, a1Out)

PoolSwap ==
    /\ steps = 0
    /\ \E c \in PoolPairs, a0In \in Amounts0, a1Out \in Amounts0,
          o \in {<<0, 0>>, <<1, 0>>, <<0, 1>>} :
           DoSwap(c[1], c[2], a0In, Big(o[1]), Big(o[2]), a1Out)

PoolPairSell ==
    /\ steps = 0
    /\ \E c \in PoolPairs, a \in Amounts0, min \in {Big(0), Big(2)} :
           DoPairSell(c[1], c[2], a, min)

PoolPairBuy ==
    /\ steps = 0
    /\ \E c \in PoolPairs, a \in Amounts0, max \in {Big(2), Big(1000000)} :
           DoPairBuy(c[1], c[2], max, a)

PoolPairMint ==
    /\ steps = 0
    /\ \E c \in PoolPairs, a \in Amounts0, max \in {Big(0), Big(1000000)},
          ts \in Amounts0 :
           DoPairMint(c[1], c[2], a, max, ts)

\* PairBurn of the liquidity just minted, out of the supply it was added to.
PoolBurnMinted ==
    /\ steps = 1
    /\ last.op = "PairMint"
    /\ last.panic = ""
    /\ DoPairBurn(last.coins[1], last.coins[2], last.ret[3], Big(0), Big(0),
                  Add(last.args[3], last.ret[3]))

PoolPairBurn ==
    /\ steps = 0
    /\ \E c \in PoolPairs, l \in Amounts0, ts \in Amounts0,
          min \in {<<0, 0>>, <<1, 0>>, <<0, 2>>} :
           DoPairBurn(c[1], c[2], l, Big(min[1]), Big(min[2]), ts)

PoolNext ==
    \/ PoolCalculateBuyForSell
    \/ PoolCalculateSellForBuy
    \/ PoolCheckBuyQuote
    \/ PoolCheckSellQuote
    \/ PoolCheckSwap
    \/ PoolSwap
    \/ PoolPairSell
    \/ PoolPairBuy
    \/ PoolPairMint
    \/ PoolBurnMinted
    \/ PoolPairBurn

PoolSpec == PoolInit /\ [][PoolNext]_vars

(***************************************************************************)
(* Keys of the tree                                                        *)
(*                                                                         *)
(* A key is the sequence of its bytes.  The price part of an index key is  *)
(* kept as one element, the price itself (see pricePath).                  *)
(***************************************************************************)

\* byte('s'), 'd', 'l', 'o', 'i', 'n'
mainPrefix == 115

pairDataPrefix == 100

pairLimitOrderPrefix == 108

pairOrdersPrefix == 111

totalPairIDPrefix == 105

totalOrdersIDPrefix == 110

\* id2Bytes, and types.CoinID.Bytes: four bytes, big-endian
id2Bytes(id) ==
    <<(id \div 16777216) % 256, (id \div 65536) % 256, (id \div 256) % 256,
      id % 256>>

\* binary.BigEndian.Uint32, and types.BytesToCoinID
BytesToID(b) == ((b[1] * 256 + b[2]) * 256 + b[3]) * 256 + b[4]

\* id2BytesWithType without the subtraction from math.MaxUint32.
id2BytesOfID(id, sale) == id2Bytes(id)

\* id2BytesWithType: the bytes of math.MaxUint32 - id for a sale, each of
\* which is 255 less the byte of id.
id2BytesWithType(id, sale) ==
    IF sale THEN [i \in 1..4 |-> 255 - id2Bytes(id)[i]] ELSE id2Bytes(id)

\* PairKey.bytes
KeyBytes(pk) == id2Bytes(KeySort(pk)[1]) \o id2Bytes(KeySort(pk)[2])

\* PairKey.pathData
pathData(pk) == <<pairDataPrefix>> \o KeyBytes(pk)

\* PairKey.pathOrders
pathOrders(pk) == <<pairOrdersPrefix>> \o KeyBytes(KeySort(pk))

\* pathOrder
pathOrder(id) == <<pairLimitOrderPrefix>> \o id2Bytes(id)

\* The bytes of math.MaxUint32.
MaxUint32Bytes == <<255, 255, 255, 255>>

RECURSIVE BytesCompare(_, _)
\* bytes.Compare: -1, 0 or 1
BytesCompare(a, b) ==
    IF a = <<>> /\ b = <<>> THEN 0
    ELSE IF a = <<>> THEN -1
    ELSE IF b = <<>> THEN 1
    ELSE IF a[1] = b[1] THEN BytesCompare(Tail(a), Tail(b))
    ELSE IF a[1] < b[1] THEN -1
    ELSE 1

(***************************************************************************)
(* iavl.MutableTree                                                        *)
(***************************************************************************)

\* Whether key is the key of a pair record, and the pair it names.
IsPairDataKey(key) ==
    Len(key) = 10 /\ key[1] = mainPrefix /\ key[2] = pairDataPrefix

PairOfKey(key) == <<BytesToID(SubSeq(key, 3, 6)), BytesToID(SubSeq(key, 7, 10))>>

IsNextIDKey(key) == key = <<mainPrefix, totalPairIDPrefix>>

\* MutableTree.Set(key, value)
TreeSet(t, key, value) ==
    IF IsNextIDKey(key) THEN [t EXCEPT !.nextID = value]
    ELSE IF IsPairDataKey(key)
    THEN [t EXCEPT !.data[PairOfKey(key)] = [present |-> TRUE, data |-> value]]
    ELSE [t EXCEPT !.kv = [k \in DOMAIN t.kv \cup {key} |->
                              IF k = key THEN value ELSE t.kv[k]]]

\* MutableTree.Remove(key)
TreeRemove(t, key) ==
    IF IsNextIDKey(key) THEN [t EXCEPT !.nextID = 0]
    ELSE IF IsPairDataKey(key) THEN [t EXCEPT !.data[PairOfKey(key)] = NoRecord]
    ELSE [t EXCEPT !.kv = [k \in DOMAIN t.kv \ {key} |-> t.kv[k]]]

\* ImmutableTree.Get(key) on the keys of the orders: has is FALSE when the
\* key is not in the tree.
TreeGet(t, key) ==
    IF key \in DOMAIN t.kv THEN [has |-> TRUE, value |-> t.kv[key]]
    ELSE [has |-> FALSE, value |-> <<>>]

\* One write of Commit.
SetOp(key, value) == [op |-> "set", key |-> key, value |-> value]

RemoveOp(key) == [op |-> "remove", key |-> key, value |-> <<>>]

RECURSIVE TreeApply(_, _)
\* The tree after the writes of log, in their order.
TreeApply(t, log) ==
    IF log = <<>> THEN t
    ELSE TreeApply(IF log[1].op = "set" THEN TreeSet(t, log[1].key, log[1].value)
                   ELSE TreeRemove(t, log[1].key),
                   Tail(log))

(***************************************************************************)
(* Limit orders                                                            *)
(*                                                                         *)
(* Volumes of orders are *big.Int in the source; the orders of the model   *)
(* carry small naturals.  A price is the pair <<numerator, denominator>>   *)
(* of a fraction in lowest terms, <<0, 1>> for the price 0.                *)
(***************************************************************************)

\* Addresses of owners, ids of orders and heights of blocks of the model.
Owners == {"Mx01", "Mx02"}

RECURSIVE GCD(_, _)
GCD(a, b) == IF b = 0 THEN a ELSE GCD(b, a % b)

PriceOf(n, d) == <<n \div GCD(n, d), d \div GCD(n, d)>>

PriceZero == <<0, 1>>

\* A Limit: the fields the record of the tree encodes, with the id and the
\* cached sort price (oldSortPrice).
Limit(id, key, isBuy, wantBuy, wantSell, owner, height, old) ==
    [id |-> id, PairKey |-> key, IsBuy |-> isBuy, WantBuy |-> wantBuy,
     WantSell |-> wantSell, Owner |-> owner, Height |-> height,
     oldSortPrice |-> old]

\* Limit.isEmpty
isEmpty(l) == l = Nil \/ l.WantBuy = 0 \/ l.WantSell = 0

\* The sort price of an order: WantBuy / WantSell on the buy side,
\* WantSell / WantBuy on the sell side, 0 for an empty order.
sortPrice(l) ==
    IF isEmpty(l) THEN PriceZero
    ELSE IF l.IsBuy THEN PriceOf(l.WantBuy, l.WantSell)
    ELSE PriceOf(l.WantSell, l.WantBuy)

\* rlp.EncodeToBytes(limit): the exported fields of the Limit
EncodeLimit(l) ==
    [PairKey |-> l.PairKey, IsBuy |-> l.IsBuy, WantBuy |-> l.WantBuy,
     WantSell |-> l.WantSell, Owner |-> l.Owner, Height |-> l.Height]

\* rlp.DecodeBytes(value, order) into a Limit with the id given; its cached
\* sort price is the price it is indexed under.
DecodeLimit(id, v) ==
    Limit(id, v.PairKey, v.IsBuy, v.WantBuy, v.WantSell, v.Owner, v.Height,
          sortPrice(v))

\* Swap.loadNextOrdersID
loadNextOrdersID(b) ==
    IF b.nextOrderID # 0 THEN b.nextOrderID
    ELSE IF ~TreeGet(db, <<mainPrefix, totalOrdersIDPrefix>>).has THEN 1
    ELSE TreeGet(db, <<mainPrefix, totalOrdersIDPrefix>>).value

\* Swap.incOrdersID: the order side afterwards and the id handed out.
incOrdersID(b) ==
    [b |-> [b EXCEPT !.nextOrderID = loadNextOrdersID(b) + 1,
                     !.dirtyNextOrdersID = TRUE],
     id |-> loadNextOrdersID(b)]

\* Pair.getOrder / Swap.GetOrder: the order held in memory, or else the one
\* the tree records under pathOrder(id); Nil if there is none.
getOrder(b, id) ==
    IF id \in DOMAIN b.list THEN b.list[id]
    ELSE IF TreeGet(db, pathOrder(id)).has
    THEN DecodeLimit(id, TreeGet(db, pathOrder(id)).value)
    ELSE Nil

\* The order side after the order l was put in memory and marked dirty
\* (dirtyOrders of its pair, and Swap.markDirtyOrders(key)).
MarkDirtyOrder(b, l) ==
    [b EXCEPT !.list = [i \in DOMAIN b.list \cup {l.id} |->
                           IF i = l.id THEN l ELSE b.list[i]],
              !.dirty[l.PairKey] = @ \cup {l.id},
              !.dirtiesOrders = @ \cup {l.PairKey}]

PanicOrderNotFound == "order not found"

\* Swap.PairAddOrder(coinWantBuy, coinWantSell, wantBuy, wantSell, owner,
\* height): returns <<id>>.  A buy order wants coin1 of the canonical pair.
PairAddOrder(s, b, coinWantBuy, coinWantSell, wantBuy, wantSell, owner, height) ==
    LET g == Pair(s, coinWantBuy, coinWantSell)
        inc == incOrdersID(b)
        key == KeySort(<<coinWantBuy, coinWantSell>>)
    IN  IF g.p.nil THEN [s |-> g.s, b |-> b, panic |-> PanicNilDereference, ret |-> <<>>]
        ELSE [s |-> g.s,
              b |-> MarkDirtyOrder(inc.b,
                       Limit(inc.id, key, coinWantBuy = key[2], wantBuy, wantSell,
                             owner, height, PriceZero)),
              panic |-> "", ret |-> <<inc.id>>]

\* Swap.PairRemoveLimitOrder(id): returns <<coin, volume>>, the coin the
\* order sells and what is left of WantSell, and leaves the order empty and
\* dirty.
PairRemoveLimitOrder(b, id) ==
    LET l == getOrder(b, id)
    IN  IF isEmpty(l) THEN [b |-> b, panic |-> PanicOrderNotFound, ret |-> <<>>]
        ELSE [b |-> MarkDirtyOrder(b, [l EXCEPT !.WantBuy = 0, !.WantSell = 0]),
              panic |-> "",
              ret |-> <<IF l.IsBuy THEN l.PairKey[1] ELSE l.PairKey[2], l.WantSell>>]

\* pricePath(key, price, id, isSale)
pricePath(key, price, id, isSale) ==
    <<mainPrefix>> \o pathOrders(key) \o <<IF isSale THEN 1 ELSE 0>>
        \o <<price>> \o id2BytesWithType(id, isSale)

(***************************************************************************)
(* Swap.Commit                                                             *)
(***************************************************************************)

\* The orders in which ranging over a Go map whose keys are S may yield them.
Iterations(S) ==
    {f \in [1..Cardinality(S) -> S] : \A i, j \in 1..Cardinality(S) : i # j => f[i] # f[j]}

RECURSIVE InsertKey(_, _)
\* keys, sorted so far, with k put before the first key that k precedes under
\* bytes.Compare(k.bytes(), key.bytes()) == 1.
InsertKey(keys, k) ==
    IF keys = <<>> THEN <<k>>
    ELSE IF BytesCompare(KeyBytes(k), KeyBytes(keys[1])) = 1 THEN <<k>> \o keys
    ELSE <<keys[1]>> \o InsertKey(Tail(keys), k)

RECURSIVE SortKeys(_, _)
\* sort.SliceStable of keys under that comparison, onto done.
SortKeys(done, keys) ==
    IF keys = <<>> THEN done ELSE SortKeys(InsertKey(done, keys[1]), Tail(keys))

\* Swap.getOrderedDirtyPairs without the sort: a faulty variant, which C15
\* must tell from the code.
getOrderedDirtyPairsUnsorted(iter) == iter

\* Swap.getOrderedDirtyPairs and Swap.getOrderedDirtyOrderPairs, iter being
\* the order in which the map yields its keys.
getOrderedDirtyPairs(iter) == SortKeys(<<>>, iter)

getOrderedDirtyOrderPairs(iter) == SortKeys(<<>>, iter)

RECURSIVE InsertID(_, _)
InsertID(ids, id) ==
    IF ids = <<>> THEN <<id>>
    ELSE IF id > ids[1] THEN <<id>> \o ids
    ELSE <<ids[1]>> \o InsertID(Tail(ids), id)

RECURSIVE SortIDs(_, _)
SortIDs(done, ids) ==
    IF ids = <<>> THEN done ELSE SortIDs(InsertID(done, ids[1]), Tail(ids))

\* Pair.getDirtyOrdersList
getDirtyOrdersList(iter) == SortIDs(<<>>, iter)

ErrorNegativeBigInt == "rlp: cannot encode negative *big.Int"

\* rlp.EncodeToBytes(pair.pairData): the error, "" if none
EncodePairDataError(pd) ==
    IF Sign(pd.Reserve0) = -1 \/ Sign(pd.Reserve1) = -1 THEN ErrorNegativeBigInt
    ELSE ""

\* The loop of Commit over the dirty pairs left out: a faulty variant, which
\* C13 must tell from the code.
CommitPairsNone(s, keys, log) == [log |-> log, err |-> ""]

RECURSIVE CommitPairs(_, _, _)
\* The loop of Commit over the dirty pairs, in the order keys: the writes
\* log with those of the loop, and the error that ended it.
CommitPairs(s, keys, log) ==
    IF keys = <<>> THEN [log |-> log, err |-> ""]
    ELSE IF EncodePairDataError(View(s, pair(s, keys[1]).p)) # ""
    THEN [log |-> log, err |-> EncodePairDataError(View(s, pair(s, keys[1]).p))]
    ELSE CommitPairs(s, Tail(keys),
             Append(log, SetOp(<<mainPrefix>> \o pathData(keys[1]),
                               View(s, pair(s, keys[1]).p))))

\* The writes of Commit for the dirty order limit of the pair key, whose
\* cached sort price was oldSortPrice.
CommitOrderWrites(key, limit, oldSortPrice) ==
    LET pathOrderID == pathOrder(limit.id)
        newPath == pricePath(key, sortPrice(limit), limit.id, ~limit.IsBuy)
        oldPathOrderList == pricePath(key, oldSortPrice, limit.id, ~limit.IsBuy)
        written == <<SetOp(newPath, <<>>), SetOp(pathOrderID, EncodeLimit(limit))>>
    IN  IF oldSortPrice # PriceZero
        THEN IF isEmpty(limit)
             THEN <<RemoveOp(pathOrderID), RemoveOp(oldPathOrderList)>>
             ELSE IF oldPathOrderList # newPath
             THEN <<RemoveOp(oldPathOrderList)>> \o written
             ELSE written
        ELSE written

\* The order limit in memory after Commit has handled it: nil if it was
\* empty, and else with its sort price cached (ReCalcOldSortPrice).
CommittedOrder(limit) ==
    IF isEmpty(limit) THEN Nil ELSE [limit EXCEPT !.oldSortPrice = sortPrice(limit)]

RECURSIVE CommitOrders(_, _, _, _)
\* The loop of Commit over the dirty orders ids of the pair key: the order
\* side and the writes afterwards.
CommitOrders(b, key, ids, log) ==
    IF ids = <<>> THEN [b |-> [b EXCEPT !.dirty[key] = {}], log |-> log]
    ELSE CommitOrders([b EXCEPT !.list[ids[1]] = CommittedOrder(getOrder(b, ids[1]))],
                      key, Tail(ids),
                      log \o CommitOrderWrites(key, getOrder(b, ids[1]),
                                               getOrder(b, ids[1]).oldSortPrice))

RECURSIVE CommitOrderPairs(_, _, _, _)
CommitOrderPairsNext(r, keys, iter) == CommitOrderPairs(r.b, Tail(keys), iter, r.log)

\* The loop of Commit over the pairs with dirty orders, in the order keys;
\* iter[key] is the order in which dirtyOrders.list of the pair yields its ids.
CommitOrderPairs(b, keys, iter, log) ==
    IF keys = <<>> THEN [b |-> [b EXCEPT !.dirtiesOrders = {}], log |-> log]
    ELSE CommitOrderPairsNext(
             CommitOrders(b, keys[1], getDirtyOrdersList(iter[keys[1]]), log),
             keys, iter)

\* The writes of Commit for the two id counters.
CommitCounters(s, b) ==
    (IF s.dirtyNextID THEN <<SetOp(<<mainPrefix, totalPairIDPrefix>>, s.nextID)>>
     ELSE <<>>)
    \o (IF b.dirtyNextOrdersID
        THEN <<SetOp(<<mainPrefix, totalOrdersIDPrefix>>, b.nextOrderID)>>
        ELSE <<>>)

\* Swap.Commit(db, version) on the registry s with the order side b, the Go
\* maps ranging as it gives (it.pairs, it.orderPairs, it.ids): the registry
\* and the order side afterwards, the writes made to the mutable tree in
\* their order, and the error returned.  An error of the encoder ends the
\* call where it occurs.
Commit(s, b, it) ==
    LET s1 == [s EXCEPT !.dirtyNextID = FALSE]
        b1 == [b EXCEPT !.dirtyNextOrdersID = FALSE]
        cp == CommitPairs(s, getOrderedDirtyPairs(it.pairs), CommitCounters(s, b))
        co == CommitOrderPairs(b1, getOrderedDirtyOrderPairs(it.orderPairs),
                               it.ids, cp.log)
    IN  IF cp.err # "" THEN [s |-> s1, b |-> b1, log |-> cp.log, err |-> cp.err]
        ELSE [s |-> [s1 EXCEPT !.dirties = {}], b |-> co.b, log |-> co.log,
              err |-> ""]

\* The ways in which the maps Commit ranges over may yield their keys.
CommitIterations(s, b) ==
    {[pairs |-> p, orderPairs |-> o, ids |-> i] :
        p \in Iterations(s.dirties), o \in Iterations(b.dirtiesOrders),
        i \in {f \in [b.dirtiesOrders ->
                        UNION {Iterations(b.dirty[k]) : k \in b.dirtiesOrders}] :
                   \A k \in b.dirtiesOrders : f[k] \in Iterations(b.dirty[k])}}

(***************************************************************************)
(* Swap.ExpireOrders                                                       *)
(***************************************************************************)

\* The keys of t from start up to end, end excluded, as IterateRange visits
\* them in ascending order; only the keys of the orders are looked through.
RangeKeys(t, start, end) ==
    {k \in DOMAIN t.kv : BytesCompare(start, k) # 1 /\ BytesCompare(k, end) = -1}

LeastKey(ks) == CHOOSE k \in ks : \A o \in ks : BytesCompare(k, o) # 1

RECURSIVE ExpireScan(_, _, _, _)
\* The callback of ExpireOrders over the keys ks left to visit: the orders
\* collected.  The visit ends at the first order above beforeHeight.
ExpireScan(t, ks, beforeHeight, orders) ==
    IF ks = {} THEN orders
    ELSE IF DecodeLimit(BytesToID(Tail(LeastKey(ks))), t.kv[LeastKey(ks)]).Height
                > beforeHeight
    THEN orders
    ELSE ExpireScan(t, ks \ {LeastKey(ks)}, beforeHeight,
             Append(orders,
                    DecodeLimit(BytesToID(Tail(LeastKey(ks))), t.kv[LeastKey(ks)])))

RECURSIVE Digits(_)
Digits(n) == IF n < 10 THEN <<48 + n>> ELSE Digits(n \div 10) \o <<48 + (n % 10)>>

\* strconv.Itoa, and big.Int.String on a volume: the characters of the
\* decimal numeral
Itoa(n) == IF n < 0 THEN <<45>> \o Digits(0 - n) ELSE Digits(n)

\* events.OrderExpiredEvent
OrderExpiredEvent(id, address, coin, amount) ==
    [ID |-> id, Address |-> address, Coin |-> coin, Amount |-> amount]

RECURSIVE ExpireLoop(_, _, _)
\* The credit of ExpireOrders taken from the record that was scanned,
\* whatever PairRemoveLimitOrder did: a faulty variant.
ExpireCreditStale(b, l, orders, r) ==
    ExpireLoop(r.b,
        [balance |-> Append(l.balance,
                        <<orders[1].Owner,
                          IF orders[1].IsBuy THEN orders[1].PairKey[1]
                          ELSE orders[1].PairKey[2],
                          orders[1].WantSell>>),
         events |-> Append(l.events,
                       OrderExpiredEvent(orders[1].id, orders[1].Owner,
                           IF orders[1].IsBuy THEN orders[1].PairKey[1]
                           ELSE orders[1].PairKey[2],
                           Itoa(orders[1].WantSell)))],
        Tail(orders))

ExpireCredit(b, l, orders, r) ==
    IF r.panic # "" THEN [b |-> r.b, l |-> l, panic |-> r.panic]
    ELSE ExpireLoop(r.b,
             [balance |-> Append(l.balance, <<orders[1].Owner, r.ret[1], r.ret[2]>>),
              events |-> Append(l.events,
                            OrderExpiredEvent(orders[1].id, orders[1].Owner,
                                              r.ret[1], Itoa(r.ret[2])))],
             Tail(orders))

\* The loop of ExpireOrders over the orders collected: each is removed, its
\* owner credited, and the event sent.
ExpireLoop(b, l, orders) ==
    IF orders = <<>> THEN [b |-> b, l |-> l, panic |-> ""]
    ELSE ExpireCredit(b, l, orders, PairRemoveLimitOrder(b, orders[1].id))

\* The range ExpireOrders scans: pathOrder(0) to pathOrder(math.MaxUint32)
ExpireRange == <<pathOrder(0), <<pairLimitOrderPrefix>> \o MaxUint32Bytes>>

\* The orders ExpireOrders(beforeHeight) collects from the tree.
ExpireCollect(beforeHeight) ==
    ExpireScan(db, RangeKeys(db, ExpireRange[1], ExpireRange[2]), beforeHeight, <<>>)

\* ExpireOrders without the calls of AddBalance and AddEvent: a faulty
\* variant, which C19 must tell from the code.
ExpireOrdersUncredited(b, l, beforeHeight) ==
    [ExpireLoop(b, l, ExpireCollect(beforeHeight)) EXCEPT !.l = l]

\* Swap.ExpireOrders(beforeHeight): the order side and the ledger afterwards.
ExpireOrders(b, l, beforeHeight) == ExpireLoop(b, l, ExpireCollect(beforeHeight))

(***************************************************************************)
(* Actions on the orders, the tree and the block                           *)
(***************************************************************************)

\* The outcome of a call that may change the registry s, the order side b,
\* the mutable tree t and the ledger l.
Outcome(s, b, t, l, panic, err, ret) ==
    [s |-> s, b |-> b, t |-> t, l |-> l, panic |-> panic, err |-> err, ret |-> ret]

\* The call op(args) ends with the outcome out.
BlockStep(op, coin0, coin1, args, out) ==
    /\ pairs' = out.s.pairs
    /\ dirties' = out.s.dirties
    /\ nextID' = out.s.nextID
    /\ dirtyNextID' = out.s.dirtyNextID
    /\ book' = out.b
    /\ tree' = out.t
    /\ ledger' = out.l
    /\ last' = [op |-> op, coins |-> <<coin0, coin1>>, args |-> args,
                reg |-> Self, pre |-> book,
                panic |-> out.panic, err |-> out.err, ret |-> out.ret]
    /\ prev' = last
    /\ steps' = steps + 1
    /\ modified' = IF op = "Commit" /\ out.err = "" THEN {} ELSE modified
    /\ UNCHANGED <<locks, votes, db, checker, genesis, handed>>

DoPairAddOrder(coinWantBuy, coinWantSell, wantBuy, wantSell, owner, height) ==
    LET r == PairAddOrder(Self, book, coinWantBuy, coinWantSell, wantBuy, wantSell,
                          owner, height)
    IN  BlockStep("PairAddOrder", coinWantBuy, coinWantSell,
                  <<wantBuy, wantSell, owner, height>>,
                  Outcome(r.s, r.b, tree, ledger, r.panic, "", r.ret))

DoPairRemoveLimitOrder(id) ==
    LET r == PairRemoveLimitOrder(book, id)
    IN  BlockStep("PairRemoveLimitOrder", 0, 0, <<id>>,
                  Outcome(Self, r.b, tree, ledger, r.panic, "", r.ret))

\* Commit(tree, version); last.ret is the sequence of the writes made.
DoCommit ==
    \E it \in CommitIterations(Self, book) :
        LET r == Commit(Self, book, it)
        IN  BlockStep("Commit", 0, 0, <<>>,
                      Outcome(r.s, r.b, TreeApply(tree, r.log), ledger, "", r.err, r.log))

\* ExpireOrders(beforeHeight); last.ret is the sequence of the orders collected.
DoExpireOrders(beforeHeight) ==
    LET r == ExpireOrders(book, ledger, beforeHeight)
    IN  BlockStep("ExpireOrders", 0, 0, <<beforeHeight>>,
                  Outcome(Self, r.b, tree, r.l, r.panic, "", ExpireCollect(beforeHeight)))

\* SetImmutableTree(immutableTree), with the tree as Commit left it
DoSetImmutableTree ==
    /\ db' = tree
    /\ last' = [op |-> "SetImmutableTree", coins |-> <<0, 0>>, args |-> <<>>,
                reg |-> Self, pre |-> book, panic |-> "", err |-> "", ret |-> <<>>]
    /\ prev' = last
    /\ steps' = steps + 1
    /\ UNCHANGED <<locks, votes, pairs, dirties, nextID, dirtyNextID, checker, tree, book, ledger,
                   genesis, modified, handed>>

(***************************************************************************)
(* OrderSpec: blocks of calls on the orders and the pairs, each ended by   *)
(* Commit and SetImmutableTree.  A panic, or an error of Commit, ends the  *)
(* run: the node stops there.                                              *)
(***************************************************************************)

\* Number of calls in a run of OrderSpec.
MaxBlockSteps == 5

\* The calls PairAddOrder of the run: <<coinWantBuy, coinWantSell, wantBuy,
\* wantSell, owner, height>>.
OrderArgs ==
    {<<2, 1, 450, 500, "Mx01", 5>>, <<1, 2, 450, 500, "Mx02", 3>>}

\* The ids PairRemoveLimitOrder is called with, and the heights ExpireOrders
\* is called with.
RemoveIDs == {1, 2}

ExpireHeights == {3}

\* A call may follow one that returned, but for Commit, which
\* SetImmutableTree follows.
MayCall == steps < MaxBlockSteps /\ last.panic = "" /\ last.err = "" /\ last.op # "Commit"

OrderInit ==
    /\ New(PoolTree(Big(10000), Big(40000)))
    /\ Started
    /\ last = NoCall
    /\ prev = NoCall
    /\ steps = 0

OrderAdd ==
    /\ MayCall
    /\ \E a \in OrderArgs : DoPairAddOrder(a[1], a[2], a[3], a[4], a[5], a[6])

OrderRemove ==
    /\ MayCall
    /\ \E id \in RemoveIDs : DoPairRemoveLimitOrder(id)

OrderPairSell ==
    /\ MayCall
    /\ DoPairSell(2, 1, Big(1000), Big(0))

OrderPairCreate ==
    /\ MayCall
    /\ DoPairCreate(1, 3, Big(10000), Big(40000))

\* A burn of no liquidity, which pays out (0, 0).
OrderPairBurn ==
    /\ MayCall
    /\ DoPairBurn(1, 2, Big(0), Big(0), Big(0), Big(20000))

OrderCommit ==
    /\ MayCall
    /\ DoCommit

OrderSetImmutableTree ==
    /\ steps < MaxBlockSteps
    /\ last.op = "Commit"
    /\ last.err = ""
    /\ DoSetImmutableTree

OrderExpire ==
    /\ MayCall
    /\ \E h \in ExpireHeights : DoExpireOrders(h)

OrderNext ==
    \/ OrderAdd
    \/ OrderRemove
    \/ OrderPairSell
    \/ OrderPairCreate
    \/ OrderPairBurn
    \/ OrderCommit
    \/ OrderSetImmutableTree
    \/ OrderExpire

OrderSpec == OrderInit /\ [][OrderNext]_vars

(***************************************************************************)
(* Swap.Export and Swap.Import                                             *)
(***************************************************************************)

\* The three digits of a limb below the first of a *big.Int.
Digits3(n) == <<48 + (n \div 100), 48 + ((n \div 10) % 10), 48 + (n % 10)>>

RECURSIVE LimbDigits(_, _)
LimbDigits(m, i) == IF i = 0 THEN <<>> ELSE Digits3(m[i]) \o LimbDigits(m, i - 1)

\* big.Int.String: the characters of the decimal numeral
BigString(x) ==
    IF x.m = <<>> THEN <<48>>
    ELSE (IF x.s = -1 THEN <<45>> ELSE <<>>)
             \o Digits(x.m[Len(x.m)]) \o LimbDigits(x.m, Len(x.m) - 1)

RECURSIVE ParseDigits(_, _)
ParseDigits(str, acc) ==
    IF str = <<>> THEN acc
    ELSE ParseDigits(Tail(str), Add(Mul(acc, Big(10)), Big(str[1] - 48)))

\* helpers.StringToBigInt: the *big.Int of a decimal numeral
StringToBigInt(str) ==
    IF str # <<>> /\ str[1] = 45 THEN Neg(ParseDigits(Tail(str), Big(0)))
    ELSE ParseDigits(str, Big(0))

RECURSIVE ParseNat(_, _)
\* The same for the volume of an order.
ParseNat(str, acc) ==
    IF str = <<>> THEN acc ELSE ParseNat(Tail(str), acc * 10 + (str[1] - 48))

\* types.AppState: the pools and the next order id; and the state Export
\* is given to fill.
AppState(pools, nextOrderID) == [Pools |-> pools, NextOrderID |-> nextOrderID]

NoAppState == AppState(<<>>, 0)

\* The range of keys Export scans.
ExportRange == <<<<mainPrefix, pairDataPrefix>>, <<mainPrefix, pairDataPrefix + 1>>>>

\* Whether IterateRange over ExportRange visits the record of the pair key.
InExportRange(key) ==
    /\ BytesCompare(ExportRange[1], <<mainPrefix>> \o pathData(key)) # 1
    /\ BytesCompare(<<mainPrefix>> \o pathData(key), ExportRange[2]) = -1

RECURSIVE ExportLoad(_, _)
\* The scan of Export: s.Pair(coin0, coin1) for each of the keys.
ExportLoad(s, keys) ==
    IF keys = {} THEN s
    ELSE ExportLoad(Pair(s, (CHOOSE k \in keys : TRUE)[1],
                         (CHOOSE k \in keys : TRUE)[2]).s,
                    keys \ {CHOOSE k \in keys : TRUE})

\* types.Order of a Limit
ExportOrder(l) ==
    [IsSale |-> ~l.IsBuy, Volume0 |-> Itoa(l.WantBuy), Volume1 |-> Itoa(l.WantSell),
     ID |-> l.id, Owner |-> l.Owner, Height |-> l.Height]

\* The ids of the records of orders that the tree holds.
RecordedIDs == {BytesToID(Tail(k)) : k \in RangeKeys(db, ExpireRange[1], ExpireRange[2])}

RECURSIVE ExportOrders(_, _)
\* Pair.loadAllOrders: the orders among ids that the tree records for the
\* pair key, as types.Order.
ExportOrders(key, ids) ==
    IF ids = {} THEN <<>>
    ELSE (IF getOrder(EmptyBook, CHOOSE i \in ids : \A o \in ids : i <= o).PairKey = key
             /\ ~isEmpty(getOrder(EmptyBook, CHOOSE i \in ids : \A o \in ids : i <= o))
          THEN <<ExportOrder(getOrder(EmptyBook,
                                      CHOOSE i \in ids : \A o \in ids : i <= o))>>
          ELSE <<>>)
         \o ExportOrders(key, ids \ {CHOOSE i \in ids : \A o \in ids : i <= o})

\* types.Pool of the pair key with the data pd
ExportPool(key, pd) ==
    [Coin0 |-> key[1], Coin1 |-> key[2], Reserve0 |-> BigString(pd.Reserve0),
     Reserve1 |-> BigString(pd.Reserve1), ID |-> pd.ID, Orders |-> ExportOrders(key, RecordedIDs)]

\* The string Export sorts the pools by.
PoolName(pool) == Itoa(pool.Coin0) \o <<45>> \o Itoa(pool.Coin1)

RECURSIVE SortPools(_)
\* sort.Slice of the pools under the less of Export: no two pools have one
\* name.
SortPools(pools) ==
    IF pools = {} THEN <<>>
    ELSE <<CHOOSE p \in pools :
               \A q \in pools : BytesCompare(PoolName(p), PoolName(q)) # 1>>
         \o SortPools(pools \ {CHOOSE p \in pools :
               \A q \in pools : BytesCompare(PoolName(p), PoolName(q)) # 1})

\* The pools Export makes of the pairs of s.pairs that are not nil.
ExportPools(s) ==
    {ExportPool(k, s.pairs[k].data) : k \in {j \in Keys : s.pairs[j].st = "pair"}}

\* Swap.Export(state), state being empty: the registry afterwards and the
\* state filled.
Export(s, b) ==
    [s |-> ExportLoad(s, {k \in Keys : db.data[k].present /\ InExportRange(k)}),
     state |->
        AppState(SortPools(ExportPools(
                     ExportLoad(s, {k \in Keys : db.data[k].present /\ InExportRange(k)}))),
                 IF ExportPools(ExportLoad(s, {k \in Keys : db.data[k].present
                                                   /\ InExportRange(k)})) = {}
                 THEN 0 ELSE loadNextOrdersID(b))]

\* The body of the loop of Import up to s.incID(): the pair of the pool is
\* returned or made, given the id and the reserves of the pool, and marked.
ImportPair(s, pool) ==
    LET rp == ReturnPair(s, pool.Coin0, pool.Coin1)
        nd == PairData(StringToBigInt(pool.Reserve0), StringToBigInt(pool.Reserve1),
                       pool.ID)
    IN  IF rp.panic # "" THEN [s |-> rp.s, panic |-> rp.panic]
        ELSE [s |-> incID([rp.s EXCEPT !.pairs[rp.p.key].data =
                                           IF rp.p.rev THEN DataReverse(nd) ELSE nd,
                                       !.dirties = @ \cup {rp.p.key}]).s,
              panic |-> ""]

RECURSIVE ImportOrders(_, _, _, _)
\* The calls of PairAddOrderWithID for the orders of a pool, rev telling
\* whether the pool names its coins in reverse: each order is put in memory
\* under its id and marked dirty.
ImportOrders(b, key, rev, orders) ==
    IF orders = <<>> THEN b
    ELSE ImportOrders(
             MarkDirtyOrder(b, Limit(orders[1].ID, key, orders[1].IsSale = rev,
                                     ParseNat(orders[1].Volume0, 0),
                                     ParseNat(orders[1].Volume1, 0),
                                     orders[1].Owner, orders[1].Height, PriceZero)),
             key, rev, Tail(orders))

RECURSIVE Import(_, _, _, _)
ImportNext(r, b, pools, state) ==
    IF r.panic # "" THEN [s |-> r.s, b |-> b, panic |-> r.panic, add |-> <<>>]
    ELSE LET rest == Import([r.s EXCEPT !.dirtyNextID = TRUE],
                            [ImportOrders(b, KeySort(<<pools[1].Coin0, pools[1].Coin1>>),
                                          pools[1].Coin0 > pools[1].Coin1,
                                          pools[1].Orders)
                                EXCEPT !.nextOrderID = state.NextOrderID],
                            Tail(pools), state)
         IN  [rest EXCEPT !.add =
                 <<<<pools[1].Coin0, StringToBigInt(pools[1].Reserve0)>>,
                   <<pools[1].Coin1, StringToBigInt(pools[1].Reserve1)>>>> \o @]

\* Swap.Import(state) over the pools given: the registry and the order side
\* afterwards, and what the checker bus received.
Import(s, b, pools, state) ==
    IF pools = <<>> THEN [s |-> s, b |-> b, panic |-> "", add |-> <<>>]
    ELSE ImportNext(ImportPair(s, pools[1]), b, pools, state)

(***************************************************************************)
(* GenesisSpec: pairs are created and committed, the Swap is made anew     *)
(* over the committed tree, or its state is exported and imported by a     *)
(* Swap made over an empty tree.                                           *)
(***************************************************************************)

\* Number of calls in a run of GenesisSpec.
MaxGenesisSteps == 5

\* A call that is neither a call on a pair nor a call of a block.
GenesisCall(op) ==
    [op |-> op, coins |-> <<0, 0>>, args |-> <<>>, reg |-> Self, pre |-> book,
     panic |-> "", err |-> "", ret |-> <<>>]

\* New(bus, t): the Swap is made anew over the tree t.
DoNew(t) ==
    /\ db' = t
    /\ tree' = t
    /\ pairs' = [k \in Keys |-> Absent]
    /\ dirties' = {}
    /\ nextID' = 0
    /\ dirtyNextID' = FALSE
    /\ checker' = [c \in Coins |-> Big(0)]
    /\ book' = EmptyBook
    /\ modified' = {}
    /\ handed' = IF t = EmptyTree THEN {} ELSE handed
    /\ last' = GenesisCall("New")
    /\ prev' = last
    /\ steps' = steps + 1
    /\ UNCHANGED <<locks, votes, ledger, genesis>>

\* Export(state) with an empty state, which genesis keeps.
DoExport ==
    /\ genesis' = Export(Self, book).state
    /\ pairs' = Export(Self, book).s.pairs
    /\ last' = GenesisCall("Export")
    /\ prev' = last
    /\ steps' = steps + 1
    /\ UNCHANGED <<locks, votes, db, dirties, nextID, dirtyNextID, checker, tree, book, ledger,
                   modified, handed>>

\* Import(state) with the state exported last.
DoImport ==
    LET r == Import(Self, book, genesis.Pools, genesis)
    IN  /\ pairs' = r.s.pairs
        /\ dirties' = r.s.dirties
        /\ nextID' = r.s.nextID
        /\ dirtyNextID' = r.s.dirtyNextID
        /\ book' = r.b
        /\ checker' = AddCoins(checker, r.add)
        /\ modified' = modified \cup
               {k \in Keys : Pre(r.s, k[1], k[2]) # Pre(Self, k[1], k[2])}
        /\ last' = [GenesisCall("Import") EXCEPT !.panic = r.panic]
        /\ prev' = last
        /\ steps' = steps + 1
        /\ handed' = handed \cup {genesis.Pools[i].ID : i \in DOMAIN genesis.Pools}
        /\ UNCHANGED <<locks, votes, db, tree, ledger, genesis>>

\* The calls PairCreate of a run.
GenesisPairs == {<<1, 2>>, <<1, 3>>}

GenesisMayCall ==
    steps < MaxGenesisSteps /\ last.panic = "" /\ last.err = "" /\ last.op # "Commit"

GenesisInit ==
    /\ New(PoolTree(Big(10000), Big(40000)))
    /\ Started
    /\ last = NoCall
    /\ prev = NoCall
    /\ steps = 0

GenesisPairCreate ==
    /\ GenesisMayCall
    /\ \E k \in GenesisPairs : DoPairCreate(k[1], k[2], Big(10000), Big(40000))

GenesisCommit ==
    /\ GenesisMayCall
    /\ DoCommit

GenesisSetImmutableTree ==
    /\ steps < MaxGenesisSteps
    /\ last.op = "Commit"
    /\ last.err = ""
    /\ DoSetImmutableTree

\* The node starts again: the Swap is made anew over the tree stored last.
GenesisReload ==
    /\ steps < MaxGenesisSteps
    /\ last.op = "SetImmutableTree"
    /\ DoNew(db)

GenesisExport ==
    /\ GenesisMayCall
    /\ DoExport

\* A chain starts from the state exported: the Swap is made anew over an
\* empty tree.
GenesisNewChain ==
    /\ steps < MaxGenesisSteps
    /\ last.op = "Export"
    /\ DoNew(EmptyTree)

GenesisImport ==
    /\ steps < MaxGenesisSteps
    /\ last.op = "New"
    /\ db = EmptyTree
    /\ DoImport

GenesisNext ==
    \/ GenesisPairCreate
    \/ GenesisCommit
    \/ GenesisSetImmutableTree
    \/ GenesisReload
    \/ GenesisExport
    \/ GenesisNewChain
    \/ GenesisImport

GenesisSpec == GenesisInit /\ [][GenesisNext]_vars

(***************************************************************************)
(* Properties                                                              *)
(***************************************************************************)

\* x <= y and x < y on big.Int values
Le(x, y) == Cmp(x, y) # 1

Lt(x, y) == Cmp(x, y) = -1

\* A pair that exists, with both reserves positive.
PositivePool(pd) == pd # Nil /\ Sign(pd.Reserve0) = 1 /\ Sign(pd.Reserve1) = 1

\* reserve0 * reserve1 * 1000000 of a pair
KScaled(pd) == Mul(Mul(pd.Reserve0, pd.Reserve1), Big(1000000))

\* (reserve0 * 1000 - a0In * 2) * (reserve1 * 1000 - a1In * 2) of a pair
KAdjusted(pd, a0In, a1In) ==
    Mul(Sub(Mul(pd.Reserve0, Big(1000)), Mul(a0In, Big(2))),
        Sub(Mul(pd.Reserve1, Big(1000)), Mul(a1In, Big(2))))

\* The amounts paid in by the last call, a swap that completed.
SwapIn0 == IF last.op = "PairBuy" THEN last.ret[1] ELSE last.args[1]

SwapIn1 == IF last.op = "Swap" THEN last.args[2] ELSE Big(0)

\* C1: a swap (Pair.Swap, PairSell, PairBuy) that completes on reserves
\* (r0, r1) with inputs a0In, a1In leaves reserves with
\* (r0new * 1000 - a0In * 2) * (r1new * 1000 - a1In * 2) >= r0 * r1 * 1000000,
\* and a swap that aborts leaves the reserves as they were.
C1_SwapKeepsK ==
    (last.op \in {"Swap", "PairSell", "PairBuy"} /\ last.pre # Nil) =>
        /\ last.panic = "" =>
               Le(KScaled(last.pre), KAdjusted(Now, SwapIn0, SwapIn1))
        /\ last.panic # "" => Now = last.pre

\* A swap completed and moved the reserves.
C1_Witness ==
    /\ last.op \in {"Swap", "PairSell", "PairBuy"}
    /\ last.panic = ""
    /\ PositivePool(last.pre)
    /\ Lt(Now.Reserve1, last.pre.Reserve1)
    /\ Lt(last.pre.Reserve0, Now.Reserve0)

\* C2: on a pool with positive reserves, CheckSwap(x, y) returns no error
\* when y is the non-nil amount CalculateBuyForSell(x) quotes, and when
\* 0 < y < reserve1 and x is the amount CalculateSellForBuy(y) quotes.
C2_QuotesPassCheckSwap ==
    (last.op = "CheckSwap" /\ PositivePool(last.pre)) =>
        LET x == last.args[1]
            y == last.args[2]
            buy == CalculateBuyForSell(last.pre, x)
        IN  /\ (buy.panic = "" /\ buy.v # Nil /\ buy.v = y) =>
                   (last.panic = "" /\ last.err = "")
            /\ (Sign(y) = 1 /\ Lt(y, last.pre.Reserve1)
                    /\ CalculateSellForBuy(last.pre, y) = x) =>
                   (last.panic = "" /\ last.err = "")

\* CheckSwap was called on a quote of CalculateSellForBuy that the division
\* rounded, and accepted it.
C2_Witness ==
    /\ last.op = "CheckSwap"
    /\ prev.op = "CalculateSellForBuy"
    /\ PositivePool(last.pre)
    /\ last.args = <<prev.ret[1], prev.args[1]>>
    /\ Lt(KScaled(last.pre),
          Mul(Sub(Mul(Add(last.pre.Reserve0, last.args[1]), Big(1000)),
                  Mul(last.args[1], Big(2))),
              Mul(Sub(last.pre.Reserve1, last.args[2]), Big(1000))))
    /\ last.err = ""

\* The divisor of CalculateBuyForSell: ((a0In + reserve0) * 1000 - a0In * 2) * 1000
BuyDivisor(pd, a0In) ==
    Mul(Sub(Mul(Add(a0In, pd.Reserve0), Big(1000)), Mul(a0In, Big(2))), Big(1000))

\* C3 (amended): on a pool with positive reserves CalculateBuyForSell(a0In) is
\* reserve1 - q - 1 with q the quotient k * 1000000 / divisor rounded down
\* (q * divisor <= k * 1000000 < (q + 1) * divisor), nil when that is not
\* positive; on reserves (1000000, 1000000) CalculateBuyForSell(1000) is 997.
C3_BuyForSellFloor ==
    (last.op = "CalculateBuyForSell" /\ PositivePool(last.pre)) =>
        LET D == BuyDivisor(last.pre, last.args[1])
            N == KScaled(last.pre)
            v == last.ret[1]
            q == Sub(Sub(last.pre.Reserve1, v), Big(1))
        IN  /\ last.panic = ""
            /\ v # Nil =>
                   /\ Sign(v) = 1
                   /\ Le(Mul(q, D), N)
                   /\ Lt(N, Mul(Add(q, Big(1)), D))
            /\ v = Nil => Le(Mul(Sub(last.pre.Reserve1, Big(1)), D), N)
            /\ (last.pre.Reserve0 = Big(1000000) /\ last.pre.Reserve1 = Big(1000000)
                    /\ last.args[1] = Big(1000)) => v = Big(997)

\* C3 as claimed: CalculateBuyForSell(a0In) is reserve1 - q - 1 with q the
\* quotient rounded up ((q - 1) * divisor < k * 1000000 <= q * divisor), nil
\* when that is not positive; on reserves (1000000, 1000000)
\* CalculateBuyForSell(1000) is 996.
C3_BuyForSellCeil ==
    (last.op = "CalculateBuyForSell" /\ PositivePool(last.pre)) =>
        LET D == BuyDivisor(last.pre, last.args[1])
            N == KScaled(last.pre)
            v == last.ret[1]
            q == Sub(Sub(last.pre.Reserve1, v), Big(1))
        IN  /\ last.panic = ""
            /\ v # Nil =>
                   /\ Sign(v) = 1
                   /\ Lt(Mul(Sub(q, Big(1)), D), N)
                   /\ Le(N, Mul(q, D))
            /\ v = Nil => Lt(Mul(Sub(last.pre.Reserve1, Big(2)), D), N)
            /\ (last.pre.Reserve0 = Big(1000000) /\ last.pre.Reserve1 = Big(1000000)
                    /\ last.args[1] = Big(1000)) => v = Big(996)

\* CalculateBuyForSell(1000) was called on reserves (1000000, 1000000).
C3_Witness ==
    /\ last.op = "CalculateBuyForSell"
    /\ last.pre # Nil
    /\ last.pre.Reserve0 = Big(1000000)
    /\ last.pre.Reserve1 = Big(1000000)
    /\ last.args[1] = Big(1000)
    /\ last.ret[1] = Big(997)

\* (f * (1000 - 2) + reserve0 * 1000) * (reserve1 - a1Out) * 1000
SellBound(pd, a1Out, f) ==
    Mul(Add(Mul(f, Big(998)), Mul(pd.Reserve0, Big(1000))),
        Mul(Sub(pd.Reserve1, a1Out), Big(1000)))

\* C4 (amended): on a pool with positive reserves and a1Out >= 0,
\* CalculateSellForBuy(a1Out) is nil exactly when a1Out >= reserve1, and
\* otherwise f + 1 with f the quotient
\* (k * 1000000 / ((reserve1 - a1Out) * 1000) - reserve0 * 1000) / (1000 - 2)
\* rounded down.
C4_SellForBuyFloor ==
    (last.op = "CalculateSellForBuy" /\ PositivePool(last.pre)) =>
        LET y == last.args[1]
            v == last.ret[1]
            f == Sub(v, Big(1))
        IN  /\ last.panic = ""
            /\ (v = Nil) <=> ~Lt(y, last.pre.Reserve1)
            /\ v # Nil =>
                   /\ Le(SellBound(last.pre, y, f), KScaled(last.pre))
                   /\ Lt(KScaled(last.pre), SellBound(last.pre, y, Add(f, Big(1))))

\* C4 as claimed: nil exactly when a1Out >= reserve1, and otherwise c + 1
\* with c the same quotient rounded up.
C4_SellForBuyCeil ==
    (last.op = "CalculateSellForBuy" /\ PositivePool(last.pre)) =>
        LET y == last.args[1]
            v == last.ret[1]
            c == Sub(v, Big(1))
        IN  /\ last.panic = ""
            /\ (v = Nil) <=> ~Lt(y, last.pre.Reserve1)
            /\ v # Nil =>
                   /\ Lt(SellBound(last.pre, y, Sub(c, Big(1))), KScaled(last.pre))
                   /\ Le(KScaled(last.pre), SellBound(last.pre, y, c))

\* CalculateSellForBuy(1000) was called on reserves (10000, 40000).
C4_Witness ==
    /\ last.op = "CalculateSellForBuy"
    /\ last.pre # Nil
    /\ last.pre.Reserve0 = Big(10000)
    /\ last.pre.Reserve1 = Big(40000)
    /\ last.args[1] = Big(1000)
    /\ last.ret[1] = Big(257)

\* The reserves of the last call's pair, the dirty set and the id counter are
\* as they were before the call.
Untouched ==
    /\ Now = last.pre
    /\ dirties = last.reg.dirties
    /\ nextID = last.reg.nextID
    /\ dirtyNextID = last.reg.dirtyNextID

\* C5 as claimed: PairCalculateBuyForSell and PairCalculateSellForBuy return
\* ErrorNotExist when the pair does not exist, ErrorInsufficientLiquidity when
\* the primitive yields nil, and otherwise the primitive's value with no
\* error; in every case reserves, dirty set and id counter are unchanged.
\* (Stated of a call made first, or after a call that returned.)
C5_WrappersReturn ==
    (/\ last.op \in {"PairCalculateBuyForSell", "PairCalculateSellForBuy"}
     /\ prev.panic = "") =>
        LET value == IF last.op = "PairCalculateBuyForSell"
                     THEN CalculateBuyForSell(last.pre, last.args[1]).v
                     ELSE CalculateSellForBuy(last.pre, last.args[1])
        IN  /\ last.panic = ""
            /\ IF last.pre = Nil THEN last.err = ErrorNotExist
               ELSE IF value = Nil THEN last.err = ErrorInsufficientLiquidity
               ELSE last.err = "" /\ last.ret = <<value>>
            /\ Untouched

\* The square of floor(sqrt(1000 * 1000)) + 1: the least product of amounts
\* whose root is above minimumLiquidity.
LeastProduct == Mul(Add(Bound, Big(1)), Add(Bound, Big(1)))

\* C6: PairCreate(coin0, coin1, a0, a1) on a pair that does not exist panics
\* with ErrorInsufficientLiquidityMinted when floor(sqrt(a0 * a1)) <= 1000;
\* otherwise it returns liquidity = floor(sqrt(a0 * a1)) and the id the
\* allocator held, and leaves the pair with reserves (a0, a1) on the caller's
\* side and that id: id 1 on an empty tree, and liquidity 20000 for the
\* amounts (10000, 40000).
C6_PairCreate ==
    (last.op = "PairCreate" /\ last.coins[1] # last.coins[2] /\ last.pre = Nil) =>
        LET a0 == last.args[1]
            a1 == last.args[2]
        IN  IF Lt(Mul(a0, a1), LeastProduct)
            THEN last.panic = ErrorInsufficientLiquidityMinted
            ELSE /\ last.panic = ""
                 /\ Le(Mul(last.ret[3], last.ret[3]), Mul(a0, a1))
                 /\ Lt(Mul(a0, a1),
                       Mul(Add(last.ret[3], Big(1)), Add(last.ret[3], Big(1))))
                 /\ last.ret[1] = a0
                 /\ last.ret[2] = a1
                 /\ Now = PairData(a0, a1, last.ret[4])
                 /\ last.ret[4] = (IF last.reg.nextID # 0 THEN last.reg.nextID
                                   ELSE IF db = EmptyTree THEN 1 ELSE db.nextID)
                 /\ nextID = last.ret[4] + 1
                 /\ (a0 = Big(10000) /\ a1 = Big(40000)) => last.ret[3] = Big(20000)

\* PairCreate(1, 2, 10000, 40000) on an empty tree returned liquidity 20000
\* and id 1.
C6_Witness ==
    /\ last.op = "PairCreate"
    /\ db = EmptyTree
    /\ steps = 1
    /\ last.coins = <<1, 2>>
    /\ last.pre = Nil
    /\ last.panic = ""
    /\ last.ret = <<Big(10000), Big(40000), Big(20000), 1>>
    /\ Now = PairData(Big(10000), Big(40000), 1)

\* C7 as claimed: PairCreate on a pair that exists with non-zero reserves is
\* rejected, the pair's reserves and id are unchanged, and no id is consumed.
C7_CreateOnExistingRejected ==
    (last.op = "PairCreate" /\ PositivePool(last.pre)) =>
        /\ last.panic # ""
        /\ Untouched

\* C8 as claimed: with liquidity = floor(totalSupply * a0 / reserve0) and
\* a1 = floor(a0 * reserve1 / reserve0), PairMint(a0, maxA1, totalSupply) is
\* rejected and leaves the reserves unchanged if a1 > maxA1 or liquidity = 0,
\* and otherwise adds (a0, a1) to the reserves and returns the liquidity.
C8_MintChecksMaximum ==
    (last.op = "PairMint" /\ PositivePool(last.pre)) =>
        LET a0 == last.args[1]
            maxA1 == last.args[2]
            liquidity == Div(Mul(last.args[3], a0), last.pre.Reserve0)
            a1 == Div(Mul(a0, last.pre.Reserve1), last.pre.Reserve0)
        IN  IF Lt(maxA1, a1) \/ Sign(liquidity) = 0
            THEN last.panic # "" /\ Now = last.pre
            ELSE /\ last.panic = ""
                 /\ Now.Reserve0 = Add(last.pre.Reserve0, a0)
                 /\ Now.Reserve1 = Add(last.pre.Reserve1, a1)
                 /\ last.ret[3] = liquidity

\* C9: on a pair with totalSupply > 0, PairBurn(liquidity, minA0, minA1,
\* totalSupply) panics with ErrorInsufficientLiquidityBurned and leaves the
\* reserves unchanged if floor(liquidity * reserve0 / totalSupply) < minA0 or
\* floor(liquidity * reserve1 / totalSupply) < minA1; otherwise it takes
\* exactly these two amounts off the reserves and returns them; and CheckBurn
\* returns an error exactly when PairBurn panics.
C9_Burn ==
    (last.op = "PairBurn" /\ last.pre # Nil /\ Sign(last.args[4]) = 1) =>
        LET l == last.args[1]
            ts == last.args[4]
            n0 == Mul(l, last.pre.Reserve0)
            n1 == Mul(l, last.pre.Reserve1)
            below == Lt(n0, Mul(last.args[2], ts)) \/ Lt(n1, Mul(last.args[3], ts))
            check == CheckBurn(last.pre, l, last.args[2], last.args[3], ts)
        IN  /\ below =>
                   /\ last.panic = ErrorInsufficientLiquidityBurned
                   /\ Now = last.pre
            /\ ~below =>
                   /\ last.panic = ""
                   /\ Le(Mul(last.ret[1], ts), n0)
                   /\ Lt(n0, Mul(Add(last.ret[1], Big(1)), ts))
                   /\ Le(Mul(last.ret[2], ts), n1)
                   /\ Lt(n1, Mul(Add(last.ret[2], Big(1)), ts))
                   /\ Now.Reserve0 = Sub(last.pre.Reserve0, last.ret[1])
                   /\ Now.Reserve1 = Sub(last.pre.Reserve1, last.ret[2])
            /\ check.panic = ""
            /\ (check.err # "") <=> (last.panic # "")

\* PairBurn was rejected for the minimum of the second amount alone.
C9_Witness ==
    /\ last.op = "PairBurn"
    /\ PositivePool(last.pre)
    /\ Sign(last.args[4]) = 1
    /\ Sign(last.args[2]) = 0
    /\ Sign(last.args[3]) = 1
    /\ Sign(last.args[1]) = 1
    /\ last.panic = ErrorInsufficientLiquidityBurned

\* C10: when PairMint(a0, _, ts) succeeds on a pool with positive reserves,
\* minting liquidity L for the deposits (a0, a1), the PairBurn(L, 0, 0, ts + L)
\* that follows it returns amounts a0' <= a0 and a1' <= a1.
C10_MintThenBurn ==
    (/\ last.op = "PairBurn"
     /\ prev.op = "PairMint"
     /\ prev.panic = ""
     /\ PositivePool(prev.pre)
     /\ last.coins = prev.coins
     /\ last.args = <<prev.ret[3], Big(0), Big(0), Add(prev.args[3], prev.ret[3])>>) =>
        /\ last.panic = ""
        /\ Le(last.ret[1], prev.args[1])
        /\ Le(last.ret[2], prev.ret[2])

\* The liquidity minted was burned at once and returned less than the deposit.
C10_Witness ==
    /\ last.op = "PairBurn"
    /\ prev.op = "PairMint"
    /\ prev.panic = ""
    /\ PositivePool(prev.pre)
    /\ last.args = <<prev.ret[3], Big(0), Big(0), Add(prev.args[3], prev.ret[3])>>
    /\ last.panic = ""
    /\ Sign(prev.ret[2]) = 1
    /\ Lt(last.ret[1], prev.args[1])
    /\ Lt(last.ret[2], prev.ret[2])

\* SwapPool(b, a) and SwapPoolExist(b, a), called after SwapPool(a, b) and
\* SwapPoolExist(a, b) on the registry these leave.
SwapPoolAfter(a, b) == SwapPool(SwapPool(Self, a, b).s, b, a).ret

SwapPoolExistAfter(a, b) == SwapPoolExist(SwapPoolExist(Self, a, b).s, b, a).ret

\* C11: whatever calls were made, through either side of a pair,
\* SwapPool(a, b) = (r0, r1, id) implies SwapPool(b, a) = (r1, r0, id), and
\* SwapPoolExist(a, b) = SwapPoolExist(b, a).
C11_SwappedTuples ==
    \A a \in Coins, b \in Coins :
        a # b =>
            LET ab == SwapPool(Self, a, b).ret
            IN  /\ SwapPoolAfter(a, b) = <<ab[2], ab[1], ab[3]>>
                /\ SwapPoolExistAfter(a, b) = SwapPoolExist(Self, a, b).ret

\* PairSell was made through the reversed side of a pair, and the two sides
\* now read different tuples.
C11_Witness ==
    /\ last.op = "PairSell"
    /\ last.coins = <<2, 1>>
    /\ last.panic = ""
    /\ SwapPool(Self, 1, 2).ret[1] # Nil
    /\ SwapPool(Self, 1, 2).ret # SwapPool(Self, 2, 1).ret

(***************************************************************************)
(* Properties of Commit, of the orders and of the tree, checked on         *)
(* OrderSpec                                                               *)
(***************************************************************************)

\* The indices of the writes of log that set the key given.
SetsOf(log, key) == {i \in DOMAIN log : log[i].op = "set" /\ log[i].key = key}

\* The key of the record of the pair (coin0, coin1), the coins taken in the
\* order given.
RecordKey(coin0, coin1) ==
    <<mainPrefix, pairDataPrefix>> \o id2Bytes(coin0) \o id2Bytes(coin1)

\* C12: PairSell(2, 1, x, min), made through the reversed side of the pair
\* (1, 2), adds x to the stored reserve1 and takes the returned output from
\* the stored reserve0, changes no other pair and adds the key (1, 2) alone
\* to the dirty set; the Commit that follows sets one pair record for it,
\* under the key of (1, 2), and none under the key of (2, 1).
C12_ReversedSellOnce ==
    /\ (last.op = "PairSell" /\ last.coins = <<2, 1>> /\ last.panic = "") =>
           /\ Pre(Self, 1, 2) =
                  PairData(Sub(Pre(last.reg, 1, 2).Reserve0, last.ret[2]),
                           Add(Pre(last.reg, 1, 2).Reserve1, last.args[1]),
                           Pre(last.reg, 1, 2).ID)
           /\ \A k \in Keys \ {<<1, 2>>} :
                  Pre(Self, k[1], k[2]) = Pre(last.reg, k[1], k[2])
           /\ dirties = last.reg.dirties \cup {<<1, 2>>}
    /\ (last.op = "Commit" /\ prev.op = "PairSell" /\ prev.coins = <<2, 1>>
            /\ prev.panic = "") =>
           /\ Cardinality(SetsOf(last.ret, RecordKey(1, 2))) = 1
           /\ \A i \in SetsOf(last.ret, RecordKey(1, 2)) :
                  last.ret[i].value = Pre(Self, 1, 2)
           /\ SetsOf(last.ret, RecordKey(2, 1)) = {}

\* Commit was made after a PairSell through the reversed side that changed
\* the reserves, and it wrote the record of the pair.
C12_Witness ==
    /\ last.op = "Commit"
    /\ prev.op = "PairSell"
    /\ prev.coins = <<2, 1>>
    /\ prev.panic = ""
    /\ Sign(prev.ret[2]) = 1
    /\ SetsOf(last.ret, RecordKey(1, 2)) # {}
    /\ tree.data[<<1, 2>>].data # db.data[<<1, 2>>].data

\* A Swap just made by New, and the ids an order of a run may have.
FreshSelf ==
    [pairs |-> [k \in Keys |-> Absent], dirties |-> {}, nextID |-> 0,
     dirtyNextID |-> FALSE]

OrderIDs == 1..MaxBlockSteps

\* The live orders of the order side b, those with both volumes positive,
\* each with its id and its fields.
LiveOrders(b) ==
    {<<id, EncodeLimit(getOrder(b, id))>> :
        id \in {i \in OrderIDs : ~isEmpty(getOrder(b, i))}}

\* C13: once Commit has returned nil and its tree is the one the Swap reads,
\* a Swap just made over that tree reads for every pair the reserves and the
\* id the committing Swap holds, and has the same live orders.
C13_CommitPersists ==
    last.op = "SetImmutableTree" =>
        /\ \A k \in Keys : Pre(FreshSelf, k[1], k[2]) = Pre(Self, k[1], k[2])
        /\ LiveOrders(EmptyBook) = LiveOrders(book)

\* The tree of a Commit was stored after the reserves of a pair had changed
\* and an order had been added.
C13_Witness ==
    /\ last.op = "SetImmutableTree"
    /\ Pre(Self, 1, 2) # PairData(Big(10000), Big(40000), 1)
    /\ LiveOrders(book) # {}
    /\ \E id \in OrderIDs : id \in DOMAIN book.list

\* The pairs whose record the writes of log set.
PairsWritten(log) ==
    {PairOfKey(log[i].key) :
        i \in {j \in DOMAIN log : log[j].op = "set" /\ IsPairDataKey(log[j].key)}}

\* The calls that change a pair when they return.
MutatingOps == {"PairCreate", "PairMint", "PairBurn", "PairSell", "PairBuy", "Swap"}

\* A step in which Commit returns nil.
Committing == last'.op = "Commit" /\ last'.err = ""

\* What C14 says of a Commit beside the pair records it writes: each id
\* counter is written if and only if it was advanced, the dirty sets and the
\* dirty flags are empty afterwards, and a Commit repeated at once writes
\* nothing.
CommitFlushesRest ==
    /\ (SetsOf(last'.ret, <<mainPrefix, totalPairIDPrefix>>) # {}) = dirtyNextID
    /\ (SetsOf(last'.ret, <<mainPrefix, totalOrdersIDPrefix>>) # {})
           = book.dirtyNextOrdersID
    /\ dirties' = {}
    /\ ~dirtyNextID'
    /\ book'.dirtiesOrders = {}
    /\ ~book'.dirtyNextOrdersID
    /\ \A k \in Keys : book'.dirty[k] = {}
    /\ \A it \in CommitIterations(Self', book') : Commit(Self', book', it).log = <<>>

\* A dirty flag of an id counter is raised only by the call that advances it.
FlagsFollowCounters ==
    /\ (dirtyNextID' /\ ~dirtyNextID) => (last'.op = "PairCreate" /\ nextID' # nextID)
    /\ (book'.dirtyNextOrdersID /\ ~book.dirtyNextOrdersID) =>
           (last'.op = "PairAddOrder" /\ book'.nextOrderID # book.nextOrderID)

PairWrites(log) == {i \in DOMAIN log : IsPairDataKey(log[i].key)}

OrderWrites(log) ==
    {i \in DOMAIN log : Len(log[i].key) = 5 /\ log[i].key[1] = pairLimitOrderPrefix}

\* The id of the order whose record the write w is on, and the pair the
\* order side b has that order under.
OrderOfWrite(w) == BytesToID(SubSeq(w.key, 2, 5))

PairOfOrder(b, id) == getOrder(b, id).PairKey

\* C15: the writes of a Commit are the same in whatever order the maps of
\* the dirty pairs and the dirty orders yield their keys; the pair records
\* are written in strictly descending order of the bytes of their keys, and
\* the dirty orders of one pair are handled in strictly descending id.
C15_CommitOrder ==
    (last.op = "Commit" /\ last.err = "") =>
        /\ \A it \in CommitIterations(last.reg, last.pre) :
               Commit(last.reg, last.pre, it).log = last.ret
        /\ \A i, j \in PairWrites(last.ret) :
               i < j => BytesCompare(SubSeq(last.ret[i].key, 3, 10),
                                     SubSeq(last.ret[j].key, 3, 10)) = 1
        /\ \A i, j \in OrderWrites(last.ret) :
               (i < j /\ PairOfOrder(last.pre, OrderOfWrite(last.ret[i]))
                            = PairOfOrder(last.pre, OrderOfWrite(last.ret[j])))
                   => OrderOfWrite(last.ret[i]) > OrderOfWrite(last.ret[j])

\* Commit wrote the records of two pairs and of two orders of one pair.
C15_Witness ==
    /\ last.op = "Commit"
    /\ last.err = ""
    /\ Cardinality(PairWrites(last.ret)) = 2
    /\ Cardinality(OrderWrites(last.ret)) = 2
    /\ Cardinality(CommitIterations(last.reg, last.pre)) > 1

\* The ids of the orders that are dirty on the order side b.
DirtyOrders(b) == UNION {b.dirty[k] : k \in Keys}

\* Whether key is a key of the price index for the order id.
IsIndexKeyOf(key, id) ==
    /\ Len(key) = 16
    /\ key[1] = mainPrefix
    /\ key[2] = pairOrdersPrefix
    /\ SubSeq(key, 13, 16) = id2BytesWithType(id, key[11] = 1)

\* The keys the tree t holds for the order id: of its record and of the index.
KeysOfOrder(t, id) ==
    {key \in DOMAIN t.kv : key = pathOrder(id) \/ IsIndexKeyOf(key, id)}

\* C17 as claimed: for every dirty order that is empty when a Commit runs,
\* the tree after that Commit holds neither the key of its record nor a key
\* of the price index for it, be the order of an earlier block or made and
\* cancelled in the block committed.
C17_EmptyOrderLeavesNothing ==
    (last.op = "Commit" /\ last.err = "") =>
        \A id \in DirtyOrders(last.pre) :
            isEmpty(getOrder(last.pre, id)) => KeysOfOrder(tree, id) = {}

\* The part of C17 the code keeps: an empty dirty order that an earlier
\* Commit had recorded leaves no key in the tree.
C17_RecordedOrderLeavesNothing ==
    (last.op = "Commit" /\ last.err = "") =>
        \A id \in DirtyOrders(last.pre) :
            (isEmpty(getOrder(last.pre, id))
                /\ getOrder(last.pre, id).oldSortPrice # PriceZero)
                    => KeysOfOrder(tree, id) = {}

\* Commit ran with an empty dirty order that an earlier Commit had recorded.
C17_RecordedWitness ==
    /\ last.op = "Commit"
    /\ last.err = ""
    /\ \E id \in DirtyOrders(last.pre) :
           /\ isEmpty(getOrder(last.pre, id))
           /\ getOrder(last.pre, id).oldSortPrice # PriceZero
           /\ KeysOfOrder(db, id) # {}

\* The ids of the orders the tree t records with both volumes positive.
RecordedOrders(t) ==
    {id \in OrderIDs : TreeGet(t, pathOrder(id)).has
                           /\ ~isEmpty(DecodeLimit(id, TreeGet(t, pathOrder(id)).value))}

\* The height the tree t records for the order id.
RecordedHeight(t, id) == TreeGet(t, pathOrder(id)).value.Height

\* ExpireOrders has returned.
Expired == last.op = "ExpireOrders" /\ last.panic = ""

\* C18 as claimed: ExpireOrders(beforeHeight) removes every order the tree
\* records with a height of beforeHeight or less, and no order with a
\* greater height, whatever the heights of the orders are.
C18_ExpiresEveryDueOrder ==
    Expired =>
        \A id \in RecordedOrders(db) :
            IF RecordedHeight(db, id) <= last.args[1]
            THEN ~isEmpty(getOrder(last.pre, id)) => isEmpty(getOrder(book, id))
            ELSE getOrder(book, id) = getOrder(last.pre, id)

\* The ids of the records of orders the tree t holds, those of empty orders
\* among them.
OrderRecords(t) == {id \in OrderIDs : TreeGet(t, pathOrder(id)).has}

\* The part of C18 the code keeps: the same when no record of the tree has a
\* smaller height than a record of a smaller id.
C18_ExpiresWhenHeightsAscend ==
    (Expired /\ \A i, j \in OrderRecords(db) :
                    i < j => RecordedHeight(db, i) <= RecordedHeight(db, j)) =>
        \A id \in RecordedOrders(db) :
            IF RecordedHeight(db, id) <= last.args[1]
            THEN ~isEmpty(getOrder(last.pre, id)) => isEmpty(getOrder(book, id))
            ELSE getOrder(book, id) = getOrder(last.pre, id)

\* ExpireOrders removed an order at the boundary height and kept one above.
C18_AscendingWitness ==
    /\ Expired
    /\ \E i, j \in RecordedOrders(db) :
           /\ i < j
           /\ RecordedHeight(db, i) = last.args[1]
           /\ RecordedHeight(db, j) > last.args[1]
           /\ isEmpty(getOrder(book, i))
           /\ ~isEmpty(getOrder(book, j))

\* The entries that a step adds to a sequence of the ledger.
Added(before, after) == SubSeq(after, Len(before) + 1, Len(after))

\* The ids of the orders a step removes.
Removed == {id \in OrderIDs : ~isEmpty(getOrder(book, id)) /\ isEmpty(getOrder(book', id))}

\* C19: when ExpireOrders returns, the accounts received one AddBalance and
\* the event bus one OrderExpiredEvent for each order it removed and nothing
\* else: the credit is to the owner of the order, of the coin and the volume
\* PairRemoveLimitOrder returns, which is the WantSell left of the order, and
\* the event carries the id, the owner, that coin and that volume.
C19_ExpireCredits ==
    [][(last'.op = "ExpireOrders" /\ last'.panic = "") =>
          /\ Len(Added(ledger.balance, ledger'.balance)) = Cardinality(Removed)
          /\ Len(Added(ledger.events, ledger'.events)) = Cardinality(Removed)
          /\ SubSeq(ledger'.balance, 1, Len(ledger.balance)) = ledger.balance
          /\ SubSeq(ledger'.events, 1, Len(ledger.events)) = ledger.events
          /\ \A id \in Removed :
                 \E i \in DOMAIN Added(ledger.events, ledger'.events) :
                     /\ Added(ledger.events, ledger'.events)[i] =
                            OrderExpiredEvent(id, getOrder(book, id).Owner,
                                PairRemoveLimitOrder(book, id).ret[1],
                                Itoa(getOrder(book, id).WantSell))
                     /\ Added(ledger.balance, ledger'.balance)[i] =
                            <<getOrder(book, id).Owner,
                              PairRemoveLimitOrder(book, id).ret[1],
                              getOrder(book, id).WantSell>>
                     /\ PairRemoveLimitOrder(book, id).ret[2]
                            = getOrder(book, id).WantSell]_vars

\* ExpireOrders removed an order and kept another, and the owner of the one
\* removed was credited.
C19_Witness ==
    /\ Expired
    /\ Len(ledger.balance) = 1
    /\ Len(ledger.events) = 1
    /\ \E i, j \in RecordedOrders(db) :
           /\ isEmpty(getOrder(book, i))
           /\ ~isEmpty(getOrder(book, j))
           /\ ledger.events[1].ID = i
           /\ getOrder(book, j).Owner # ledger.events[1].Address

\* Whether the key, or the bound of a range of keys, begins with 's'.
UnderMainPrefix(key) == key # <<>> /\ key[1] = mainPrefix

\* C20 as claimed: every key a Commit sets or removes begins with the main
\* prefix 's', and so do the bounds of the ranges that ExpireOrders and
\* Export scan.
C20_KeysUnderMainPrefix ==
    /\ last.op = "Commit" => \A i \in DOMAIN last.ret : UnderMainPrefix(last.ret[i].key)
    /\ last.op = "ExpireOrders" =>
           UnderMainPrefix(ExpireRange[1]) /\ UnderMainPrefix(ExpireRange[2])
    /\ UnderMainPrefix(ExportRange[1]) /\ UnderMainPrefix(ExportRange[2])

\* The part of C20 the code keeps: the keys of the id counters, of the pair
\* records and of the price index that a Commit sets or removes, and the
\* range Export scans, begin with 's'; the keys of the order records, and
\* they alone, begin with 'l'.
C20_OtherKeysUnderMainPrefix ==
    /\ last.op = "Commit" =>
           \A i \in DOMAIN last.ret :
               IF i \in OrderWrites(last.ret)
               THEN last.ret[i].key = pathOrder(OrderOfWrite(last.ret[i]))
               ELSE UnderMainPrefix(last.ret[i].key)
    /\ UnderMainPrefix(ExportRange[1]) /\ UnderMainPrefix(ExportRange[2])

\* Commit wrote an id counter, a pair record, a key of the price index and
\* the record of an order.
C20_OtherKeysWitness ==
    /\ last.op = "Commit"
    /\ PairWrites(last.ret) # {}
    /\ OrderWrites(last.ret) # {}
    /\ \E i \in DOMAIN last.ret : IsIndexKeyOf(last.ret[i].key, 1)
    /\ SetsOf(last.ret, <<mainPrefix, totalOrdersIDPrefix>>) # {}

(***************************************************************************)
(* Properties of the pair ids, checked on GenesisSpec                      *)
(***************************************************************************)

\* The keys of the pairs the Swap has, in memory or in the tree it reads.
PairsHeld == {k \in Keys : Pre(Self, k[1], k[2]) # Nil}

\* No two pairs carry one id.
UniqueIDs ==
    \A k, j \in PairsHeld : k # j => Pre(Self, k[1], k[2]).ID # Pre(Self, j[1], j[2]).ID

\* A step in which incID hands an id to PairCreate; the id is nextID' - 1.
HandsOut == last'.op = "PairCreate" /\ nextID' # nextID

\* What C16 says of a step: afterwards no two pairs carry one id, an id
\* handed out is greater than every id handed out before, and the next pair
\* id that the tree of the chain records does not decrease.
IDsGrow ==
    /\ UniqueIDs'
    /\ HandsOut => \A id \in handed : nextID' - 1 > id
    /\ last'.op # "New" => tree'.nextID >= tree.nextID

\* C16 as claimed: after any calls of PairCreate, Import and Commit, and
\* with the Swap made anew over the committed tree in between, no two pairs
\* carry one id, every id handed out is greater than all handed out before,
\* and the next pair id recorded in the tree never decreases.
C16_UniqueGrowingIDs == [][IDsGrow]_vars

\* The ids of the pools of the state exported last are 1, 2, ... up to the
\* number of the pools.
DenseGenesis == {genesis.Pools[i].ID : i \in DOMAIN genesis.Pools} = 1..Len(genesis.Pools)

\* The part of C16 the code keeps: the same as long as the state exported
\* has its pools numbered from 1 on without a gap.
C16_GrowingWhenDense == [][DenseGenesis' => IDsGrow]_vars

\* PairCreate handed out an id after an Import of pools numbered without a
\* gap.
C16_DenseWitness ==
    /\ last.op = "PairCreate"
    /\ prev.op = "Import"
    /\ genesis.Pools # <<>>
    /\ DenseGenesis
    /\ Cardinality(PairsHeld) = 2

(***************************************************************************)
(* PathSpec: the index keys of two orders of one pair, side and price      *)
(***************************************************************************)

\* The ids of the two orders: those around each byte boundary of the four
\* bytes, up to the largest the integers of the model hold.
PathIDs ==
    {0, 1, 2, 255, 256, 257, 65535, 65536, 16777215, 16777216, 2147483646,
     2147483647}

PathKeys == {<<1, 2>>, <<2, 1>>}

PathPrices == {PriceOf(450, 500), PriceOf(500, 450)}

PathInit ==
    /\ New(EmptyTree)
    /\ Started
    /\ last = NoCall
    /\ prev = NoCall
    /\ steps = 0

\* Two calls of pricePath that differ in the id only.
DoPricePath(key, price, idA, idB, isSale) ==
    /\ last' = [NoCall EXCEPT !.op = "pricePath", !.coins = key,
                              !.args = <<price, idA, idB, isSale>>,
                              !.ret = <<pricePath(key, price, idA, isSale),
                                        pricePath(key, price, idB, isSale)>>]
    /\ UNCHANGED <<locks, votes, db, pairs, dirties, nextID, dirtyNextID, checker, prev,
                   steps, tree, book, ledger, genesis, modified, handed>>

CallPricePath ==
    \E key \in PathKeys, price \in PathPrices, idA \in PathIDs, idB \in PathIDs,
       isSale \in BOOLEAN :
        DoPricePath(key, price, idA, idB, isSale)

PathNext == CallPricePath

PathSpec == PathInit /\ [][PathNext]_vars

\* C21: within one pair, side and price the index keys of two orders
\* compare, as byte strings, as the ids do for the buy side (isSale false)
\* and against the ids for the sell side (isSale true).
C21_TierOrder ==
    last.op = "pricePath" =>
        LET idA == last.args[2]
            idB == last.args[3]
            cmp == BytesCompare(last.ret[1], last.ret[2])
            ids == IF idA < idB THEN -1 ELSE IF idA > idB THEN 1 ELSE 0
        IN  cmp = IF last.args[4] THEN -ids ELSE ids

\* Two sell-side orders whose ids differ in the third byte: the key of the
\* later order sorts first.
C21_Witness ==
    /\ last.op = "pricePath"
    /\ last.args[4]
    /\ last.args[2] = 255
    /\ last.args[3] = 256
    /\ BytesCompare(last.ret[1], last.ret[2]) = 1

(***************************************************************************)
(* QuerySpec: the checking and planning calls, between mutating calls      *)
(***************************************************************************)

QueryPairs == {<<1, 2>>, <<2, 1>>}

QueryInit ==
    /\ \E t \in SpecTrees : New(t)
    /\ Started
    /\ last = NoCall
    /\ prev = NoCall
    /\ steps = 0

QueryPairCreate ==
    /\ steps < MaxSteps
    /\ DoPairCreate(1, 2, Big(10000), Big(40000))

QueryPairSell ==
    /\ steps < MaxSteps
    /\ DoPairSell(1, 2, Big(1000), Big(0))

QueryCheckSwap ==
    /\ steps < MaxSteps
    /\ \E c \in QueryPairs, a \in {<<Big(1000), Big(500)>>, <<Big(1000), Big(50000)>>} :
           DoCheckSwap(c[1], c[2], a[1], a[2])

QueryCheckMint ==
    /\ steps < MaxSteps
    /\ \E c \in QueryPairs, a \in MintArgs : DoCheckMint(c[1], c[2], a[1], a[2], a[3])

QueryCheckBurn ==
    /\ steps < MaxSteps
    /\ \E c \in QueryPairs, a \in {<<Big(1000), Big(0)>>, <<Big(1000), Big(501)>>} :
           DoCheckBurn(c[1], c[2], a[1], a[2], Big(0), Big(20000))

QueryCheckCreate ==
    /\ steps < MaxSteps
    /\ \E c \in QueryPairs, a \in {<<Big(10000), Big(40000)>>, <<Big(0), Big(5)>>} :
           DoCheckCreate(c[1], c[2], a[1], a[2])

QueryCalculateBuyForSell ==
    /\ steps < MaxSteps
    /\ \E c \in QueryPairs, a \in {Big(0), Big(1000)} :
           DoCalculateBuyForSell(c[1], c[2], a)

QueryCalculateSellForBuy ==
    /\ steps < MaxSteps
    /\ \E c \in QueryPairs, a \in {Big(1000), Big(50000)} :
           DoCalculateSellForBuy(c[1], c[2], a)

QueryCalculateAddLiquidity ==
    /\ steps < MaxSteps
    /\ \E c \in QueryPairs : DoCalculateAddLiquidity(c[1], c[2], Big(1000), Big(20000))

QueryAmounts ==
    /\ steps < MaxSteps
    /\ \E c \in QueryPairs, ts \in {Big(0), Big(20000)} :
           DoAmounts(c[1], c[2], Big(1000), ts)

QueryAddLastSwapStep ==
    /\ steps < MaxSteps
    /\ \E c \in QueryPairs : DoAddLastSwapStep(c[1], c[2], Big(1000), Big(500))

QueryNext ==
    \/ QueryPairCreate
    \/ QueryPairSell
    \/ QueryCheckSwap
    \/ QueryCheckMint
    \/ QueryCheckBurn
    \/ QueryCheckCreate
    \/ QueryCalculateBuyForSell
    \/ QueryCalculateSellForBuy
    \/ QueryCalculateAddLiquidity
    \/ QueryAmounts
    \/ QueryAddLastSwapStep

QuerySpec == QueryInit /\ [][QueryNext]_vars

\* What a caller can read of the registry s: the reserves and id of every
\* pair, the dirty set, the pair id counter and its flag.
Readable(s) ==
    [view |-> [k \in Keys |-> Pre(s, k[1], k[2])], dirties |-> s.dirties,
     nextID |-> s.nextID, dirtyNextID |-> s.dirtyNextID]

\* The calls that check a precondition on the existence of the pair.
ExistenceChecks == {"CheckSwap", "CheckMint", "CheckBurn"}

\* C22: CheckSwap, CheckMint and CheckBurn called for a pair that does not
\* exist return the error PAIR_NOT_EXISTS, without a panic, and leave the
\* registry as it was.
C22_MissingPairReported ==
    (last.op \in ExistenceChecks /\ last.pre = Nil) =>
        /\ last.panic = ""
        /\ last.err = ErrorNotExist
        /\ Readable(Self) = Readable(last.reg)

\* Of the three, CheckBurn alone tests its receiver: it reports the missing
\* pair as the claim says.
C22_CheckBurnReports ==
    (last.op = "CheckBurn" /\ last.pre = Nil) =>
        /\ last.panic = ""
        /\ last.err = ErrorNotExist
        /\ Readable(Self) = Readable(last.reg)

\* The checking and planning calls.
PlanningOps ==
    {"CheckMint", "CheckBurn", "CheckCreate", "CheckSwap", "CalculateBuyForSell",
     "CalculateSellForBuy", "CalculateAddLiquidity", "Amounts", "AddLastSwapStep"}

\* C23: a checking or planning call, however it ends, leaves the reserves and
\* id of every pair, the dirty sets, the pair id counter and the order id
\* counter as they were.
C23_ReadOnly ==
    [][last'.op \in PlanningOps =>
           /\ Readable(Self') = Readable(Self)
           /\ book' = book]_vars

\* AddLastSwapStep returned a pair with other reserves than those of the pair
\* it was called on, which was dirty and still has the reserves it had.
C23_Witness ==
    /\ last.op = "AddLastSwapStep"
    /\ last.panic = ""
    /\ last.ret[1].Reserve0 # last.pre.Reserve0
    /\ dirties # {}
    /\ Readable(Self) = Readable(last.reg)

(***************************************************************************)
(* math/big.Float                                                          *)
(*                                                                         *)
(* Every Float of package swap is made by big.NewFloat, which gives it the *)
(* precision of a float64 mantissa and rounding to the nearest even; the   *)
(* exponent is not bounded.  A Float is modelled as mant * 2^exp with mant *)
(* a big.Int of exactly that many bits, or 0.                              *)
(***************************************************************************)

\* The number of bits of a mantissa: the precision big.NewFloat sets.
MantBits == 53

RECURSIVE Pow2Of(_)
\* 2^k as a big.Int, by squaring
Pow2Of(k) ==
    IF k < 20 THEN Big(2 ^ k) ELSE Mul(Pow2Of(k \div 2), Pow2Of(k - k \div 2))

\* The powers of 2 that are tabulated: those the arithmetic of a mantissa and
\* of its guard bits asks for.
Pow2Max == 6 * MantBits

Pow2Table == [k \in 0..Pow2Max |-> Pow2Of(k)]

\* 2^k as a big.Int
Pow2(k) == IF k <= Pow2Max THEN Pow2Table[k] ELSE Pow2Of(k)

\* The number of bits of a natural number below 2^31.
NatBitLen(n) == Cardinality({k \in 0..30 : 2 ^ k <= n})

\* The number of bits of 1000^n, or one less: 9.965784 < log2(1000).
RadixBits(n) == (9965784 * n) \div 1000000

\* The least number of bits of a magnitude of more than three limbs, from its
\* three leading limbs; it has at most two more.
BitLenLow(m) == NatBitLen(MTop(m, 3)) + RadixBits(Len(m) - 3)

\* big.Int.BitLen
BitLen(x) ==
    IF Len(x.m) <= 3
    THEN NatBitLen(MAt(x.m, 1) + Base * (MAt(x.m, 2) + Base * MAt(x.m, 3)))
    ELSE CHOOSE k \in BitLenLow(x.m)..(BitLenLow(x.m) + 2) :
             MCmp(Pow2(k - 1).m, x.m) <= 0 /\ MCmp(x.m, Pow2(k).m) = -1

Float(mant, exp) == [mant |-> mant, exp |-> exp]

FloatZero == Float(Big(0), 0)

\* A mantissa of magnitude q after rounding up: a carry out of the mantissa
\* moves the exponent.
FloatCarried(s, q, exp) ==
    IF MCmp(q, Pow2(MantBits).m) = 0 THEN Float(MkBig(s, Pow2(MantBits - 1).m), exp + 1)
    ELSE Float(MkBig(s, q), exp)

\* The quotient q of a magnitude by 2^sh, rounded to the nearest even by the
\* remainder compared with 2^(sh-1) (c); sticky says that bits were lost
\* below the magnitude.
FloatRoundUp(s, q, exp, sh, c, sticky) ==
    IF c = 1 \/ (c = 0 /\ (sticky \/ q[1] % 2 = 1))
    THEN FloatCarried(s, MAdd(q, <<1>>), exp + sh)
    ELSE Float(MkBig(s, q), exp + sh)

FloatRoundDiv(s, d, exp, sh, sticky) ==
    IF d.r = <<>> /\ ~sticky THEN Float(MkBig(s, d.q), exp + sh)
    ELSE FloatRoundUp(s, d.q, exp, sh, MCmp(d.r, Pow2(sh - 1).m), sticky)

\* The Float nearest to x * 2^exp for x of len bits.
FloatRoundLen(x, exp, sticky, len) ==
    IF len <= MantBits
    THEN Float(Mul(x, Pow2(MantBits - len)), exp - (MantBits - len))
    ELSE FloatRoundDiv(x.s, MDivMod(x.m, Pow2(len - MantBits).m), exp,
                       len - MantBits, sticky)

\* Float.round: x * 2^exp rounded to the precision.
FloatRound(x, exp, sticky) ==
    IF Sign(x) = 0 THEN FloatZero
    ELSE FloatRoundLen(x, exp, sticky, BitLen(x))

\* Float.SetInt, and big.NewFloat of a whole number
FloatSetInt(x) == FloatRound(x, 0, FALSE)

NewFloat(n) == FloatSetInt(Big(n))

\* Float.Neg
FloatNeg(a) == Float(Neg(a.mant), a.exp)

\* Float.Mul
FloatMul(a, b) ==
    IF Sign(a.mant) = 0 \/ Sign(b.mant) = 0 THEN FloatZero
    ELSE FloatRound(Mul(a.mant, b.mant), a.exp + b.exp, FALSE)

\* The mantissa of a at the exponent exp <= a.exp.
FloatAt(a, exp) == Mul(a.mant, Pow2(a.exp - exp))

FloatMinExp(a, b) == IF a.exp <= b.exp THEN a.exp ELSE b.exp

\* Float.Add
FloatAdd(a, b) ==
    IF Sign(a.mant) = 0 THEN b
    ELSE IF Sign(b.mant) = 0 THEN a
    ELSE FloatRound(Add(FloatAt(a, FloatMinExp(a, b)), FloatAt(b, FloatMinExp(a, b))),
                    FloatMinExp(a, b), FALSE)

\* Float.Sub
FloatSub(a, b) == FloatAdd(a, FloatNeg(b))

\* Float.Cmp
FloatCmp(a, b) ==
    IF Sign(a.mant) = 0 \/ Sign(b.mant) = 0 THEN Cmp(a.mant, b.mant)
    ELSE Cmp(FloatAt(a, FloatMinExp(a, b)), FloatAt(b, FloatMinExp(a, b)))

\* The bits kept below the mantissa of a quotient or a root before rounding.
GuardBits == MantBits + 3

FloatQuoDiv(s, d, exp) ==
    IF d.r = <<>> THEN FloatRound(MkBig(s, d.q), exp, FALSE)
    ELSE FloatRound(MkBig(s, d.q), exp, TRUE)

\* Float.Quo; Nil stands for the quotient by 0 (an infinity, or the panic of
\* 0 / 0), which no call made here asks for.
FloatQuo(a, b) ==
    IF Sign(b.mant) = 0 THEN Nil
    ELSE IF Sign(a.mant) = 0 THEN FloatZero
    ELSE FloatQuoDiv(a.mant.s * b.mant.s,
                     MDivMod(Mul(a.mant, Pow2(GuardBits)).m, b.mant.m),
                     a.exp - b.exp - GuardBits)

\* Half the bits a mantissa is moved up by before its root is taken, which
\* leaves the root two bits or more below the mantissa it is rounded to.
RootBits == (MantBits + 5) \div 2

FloatSqrtRoot(n, root, exp) ==
    IF Sign(root) = 0 THEN FloatZero
    ELSE FloatRound(root, exp, Cmp(Mul(root, root), n) # 0)

FloatSqrtOf(n, exp) == FloatSqrtRoot(n, Sqrt(n), exp)

\* Float.Sqrt of a >= 0: the root of the mantissa moved up by an even or an
\* odd number of bits, whichever leaves an even exponent.
FloatSqrt(a) ==
    IF Sign(a.mant) = 0 THEN FloatZero
    ELSE IF a.exp % 2 = 0
    THEN FloatSqrtOf(Mul(a.mant, Pow2(2 * RootBits)), (a.exp - 2 * RootBits) \div 2)
    ELSE FloatSqrtOf(Mul(a.mant, Pow2(2 * RootBits + 1)),
                     (a.exp - 2 * RootBits - 1) \div 2)

\* Float.Int: the integer part, truncated toward zero
FloatInt(a) ==
    IF a.exp >= 0 THEN Mul(a.mant, Pow2(a.exp)) ELSE Quo(a.mant, Pow2(-a.exp))

(***************************************************************************)
(* Pair.SellWithOrders: a sell through the limit orders and the pool       *)
(*                                                                         *)
(* The orders of the sell side of a pool are kept as the list that         *)
(* OrderSellLowerByIndex indexes: by ascending price, and by id within one *)
(* price.  An order is [id, isBuy, Sell, Buy, Owner]: Sell is the amount   *)
(* of coin0 the order takes from a seller, Buy the amount of coin1 it      *)
(* gives.                                                                  *)
(***************************************************************************)

commissionOrder == 2

\* calcPriceSell: reserve1 / reserve0
calcPriceSell(reserve0, reserve1) ==
    FloatQuo(FloatSetInt(reserve1), FloatSetInt(reserve0))

\* pairData.Price
PairPrice(pd) == calcPriceSell(pd.Reserve0, pd.Reserve1)

\* Limit.Price: Buy / Sell
LimitPrice(limit) == calcPriceSell(limit.Sell, limit.Buy)

\* The orders of the pool (1, 2): the list of its sell side, the ids of
\* Pair.dirtyOrders and the pairs of Swap.dirtiesOrders.
SellBook(orders, dirty, marked) ==
    [sellOrders |-> orders, dirtyOrders |-> dirty, dirtiesOrders |-> marked]

\* Pair.OrderSellLowerByIndex, with the index counted from 1: Nil past the
\* last order.
OrderSellLowerByIndex(b, i) ==
    IF i > Len(b.sellOrders) THEN Nil ELSE b.sellOrders[i]

SellAmount0Root(x) ==
    IF Sign(x.mant) = 0 THEN Big(0)
    ELSE FloatInt(FloatAdd(x, FloatQuo(FloatMul(NewFloat(2), x), NewFloat(1000))))

\* Float.Sqrt panics on a negative number (Nil here), which d never is: c is
\* below the square of r0 and b above it.
SellAmount0Rooted(a, b, d) ==
    IF Sign(d.mant) = -1 THEN Nil
    ELSE SellAmount0Root(FloatQuo(FloatAdd(FloatNeg(b), FloatSqrt(d)),
                                  FloatMul(NewFloat(2), a)))

SellAmount0Solve(a, b, c) ==
    SellAmount0Rooted(a, b, FloatSub(FloatMul(b, b),
                                     FloatMul(NewFloat(4), FloatMul(a, c))))

SellAmount0Terms(r0, r1, price) ==
    SellAmount0Solve(
        NewFloat((1000 + commission) \div 1000),
        FloatQuo(FloatMul(NewFloat(2000 + commission), r0), NewFloat(1000)),
        FloatSub(FloatMul(r0, r0), FloatQuo(FloatMul(r0, r1), price)))

\* Pair.CalculateSellAmount0ForPrice, for a price below that of the pool (the
\* root is then taken of a positive number).
CalculateSellAmount0ForPrice(pd, price) ==
    SellAmount0Terms(FloatSetInt(pd.Reserve0), FloatSetInt(pd.Reserve1), price)

\* What calculateBuyForSellWithOrders returns.
Calculated(amount1Out, orders, panic) ==
    [amount1Out |-> amount1Out, orders |-> orders, panic |-> panic]

\* The end of calculateBuyForSellWithOrders with the nil of the pool handed
\* on instead of skipped: a faulty variant.
CalculateRestNil(amount1Out, orders, amount1diff) ==
    IF amount1diff.panic # "" THEN Calculated(Nil, orders, amount1diff.panic)
    ELSE IF amount1diff.v = Nil THEN Calculated(Nil, orders, "")
    ELSE Calculated(Add(amount1Out, amount1diff.v), orders, "")

\* The end of calculateBuyForSellWithOrders, after the loop: what is left is
\* sold to the pool as the orders have left it.
CalculateRestOf(amount1Out, orders, amount1diff) ==
    IF amount1diff.panic # "" THEN Calculated(Nil, orders, amount1diff.panic)
    ELSE IF amount1diff.v = Nil THEN Calculated(amount1Out, orders, "")
    ELSE Calculated(Add(amount1Out, amount1diff.v), orders, "")

CalculateRest(amount0, amount1Out, pool, orders) ==
    CalculateRestOf(amount1Out, orders, CalculateBuyForSell(pool, amount0))

\* The order commission on an amount.
OrderCommission(amount) == Quo(Mul(amount, Big(commissionOrder \div 2)), Big(1000))

RECURSIVE CalculateFrom(_, _, _, _, _, _)

\* The order is filled in part with all of amount0, at its price.
CalculatePartOf(limit, amount0, amount1Out, orders, amount1) ==
    Calculated(Add(amount1Out, Sub(amount1, OrderCommission(amount1))),
               Append(orders, [limit EXCEPT !.Sell = amount0, !.Buy = amount1]), "")

\* The order is filled: in part if amount0 does not exceed its Sell, else
\* whole, and the loop goes on with the rest.
CalculateFill(b, i, limit, amount0, amount1Out, pool, orders, price) ==
    IF Sign(Sub(amount0, limit.Sell)) # 1
    THEN CalculatePartOf(limit, amount0, amount1Out, orders,
                         FloatInt(FloatMul(price, FloatSetInt(amount0))))
    ELSE CalculateFrom(b, i + 1, Sub(amount0, limit.Sell),
                       Add(amount1Out, Sub(limit.Buy, OrderCommission(limit.Buy))),
                       AddLastSwapStep(pool, OrderCommission(limit.Sell),
                                       Neg(OrderCommission(limit.Buy))),
                       Append(orders, limit))

\* The pool is first sold reserve0diff, which brings its price to that of the
\* order, for amount1diff (nil counts as 0).
CalculateSwept(b, i, limit, amount0, amount1Out, pool, orders, price, reserve0diff,
               amount1diff) ==
    CalculateFill(b, i, limit, Sub(amount0, reserve0diff),
                  Add(amount1Out, amount1diff),
                  AddLastSwapStep(pool, reserve0diff, amount1diff), orders, price)

CalculateSweepOf(b, i, limit, amount0, amount1Out, pool, orders, price, reserve0diff,
                 calc) ==
    IF calc.panic # "" THEN Calculated(Nil, orders, calc.panic)
    ELSE CalculateSwept(b, i, limit, amount0, amount1Out, pool, orders, price,
                        reserve0diff, IF calc.v = Nil THEN Big(0) ELSE calc.v)

CalculateSweep(b, i, limit, amount0, amount1Out, pool, orders, price, reserve0diff) ==
    IF Cmp(amount0, reserve0diff) # 1
    THEN CalculateRest(amount0, amount1Out, pool, orders)
    ELSE CalculateSweepOf(b, i, limit, amount0, amount1Out, pool, orders, price,
                          reserve0diff, CalculateBuyForSell(pool, reserve0diff))

CalculateOrder(b, i, limit, amount0, amount1Out, pool, orders, price) ==
    IF FloatCmp(price, PairPrice(pool)) = -1
    THEN CalculateSweep(b, i, limit, amount0, amount1Out, pool, orders, price,
                        CalculateSellAmount0ForPrice(pool, price))
    ELSE CalculateFill(b, i, limit, amount0, amount1Out, pool, orders, price)

\* One turn of the loop of calculateBuyForSellWithOrders, at order i.
CalculateFrom(b, i, amount0, amount1Out, pool, orders) ==
    IF Sign(amount0) = 0 THEN Calculated(amount1Out, orders, "")
    ELSE IF OrderSellLowerByIndex(b, i) = Nil
    THEN CalculateRest(amount0, amount1Out, pool, orders)
    ELSE CalculateOrder(b, i, OrderSellLowerByIndex(b, i), amount0, amount1Out, pool,
                        orders, LimitPrice(OrderSellLowerByIndex(b, i)))

\* Pair.calculateBuyForSellWithOrders on the pairData pd and the orders of b
calculateBuyForSellWithOrders(pd, b, amount0In) ==
    CalculateFrom(b, 1, amount0In, Big(0), pd, <<>>)

\* Pair.updateOrder and MarkDirtyOrders
updateOrder(b, i, amount0, amount1) ==
    SellBook([b.sellOrders EXCEPT ![i].Sell = Sub(@, amount0),
                                  ![i].Buy = Sub(@, amount1)],
             b.dirtyOrders \cup {b.sellOrders[i].id}, b.dirtiesOrders)

\* What the loop of SellWithOrders has added up, the owners map and the book.
Filled(amount0orders, amount1orders, commission0orders, commission1orders, owners, b) ==
    [amount0orders |-> amount0orders, amount1orders |-> amount1orders,
     commission0orders |-> commission0orders,
     commission1orders |-> commission1orders, owners |-> owners, b |-> b]

\* The body of the loop of SellWithOrders for order i of the filled ones;
\* owners[order.Owner] is assigned, not added to.
SellOrder(acc, order, i, cS, cB) ==
    Filled(Add(acc.amount0orders, order.Sell),
           Add(acc.amount1orders, Sub(order.Buy, cB)),
           Add(acc.commission0orders, cS), Add(acc.commission1orders, cB),
           (order.Owner :> IF ~order.isBuy THEN Sub(order.Sell, cS)
                           ELSE Sub(order.Buy, cB))
               @@ acc.owners,
           updateOrder(acc.b, i, order.Sell, order.Buy))

RECURSIVE SellOrdersFrom(_, _, _)
SellOrdersFrom(orders, i, acc) ==
    IF i > Len(orders) THEN acc
    ELSE SellOrdersFrom(orders, i + 1,
                        SellOrder(acc, orders[i], i, OrderCommission(orders[i].Sell),
                                  OrderCommission(orders[i].Buy)))

\* What SellWithOrders leaves and returns.
Sold(s, b, panic, amount1Out, owners) ==
    [s |-> s, b |-> b, panic |-> panic, ret |-> <<amount1Out, owners>>]

SellSwapped(sw, b, amount1Out, owners) ==
    IF sw.panic # "" THEN Sold(sw.s, b, sw.panic, Nil, <<>>)
    ELSE Sold(sw.s, b, "", amount1Out, owners)

\* The end of SellWithOrders: the commissions go to the reserves, and what the
\* orders did not take is swapped with the pool.
SellFilled(s, p, amount0In, amount1Out, acc) ==
    SellSwapped(Swap(update(s, p, acc.commission0orders, acc.commission1orders), p,
                     Sub(amount0In, acc.amount0orders), Big(0), Big(0),
                     Sub(amount1Out, acc.amount1orders)),
                [acc.b EXCEPT !.dirtiesOrders = @ \cup {p.key}], amount1Out,
                acc.owners)

SellCalculated(s, p, b, amount0In, calc) ==
    IF calc.panic # "" THEN Sold(s, b, calc.panic, Nil, <<>>)
    ELSE SellFilled(s, p, amount0In, calc.amount1Out,
                    SellOrdersFrom(calc.orders, 1,
                                   Filled(Big(0), Big(0), Big(0), Big(0), <<>>, b)))

\* Pair.SellWithOrders on the pool p of the registry s, with the orders of b
SellWithOrders(s, p, b, amount0In) ==
    SellCalculated(s, p, b, amount0In,
                   calculateBuyForSellWithOrders(View(s, p), b, amount0In))

\* An order is added to the sell side: it gets the next id and its place by
\* price, behind the orders of the same price.
LimitOf(id, sell, buy, owner) ==
    [id |-> id, isBuy |-> FALSE, Sell |-> sell, Buy |-> buy, Owner |-> owner]

RECURSIVE InsertLimit(_, _)
InsertLimit(orders, limit) ==
    IF orders = <<>> THEN <<limit>>
    ELSE IF FloatCmp(LimitPrice(limit), LimitPrice(Head(orders))) = -1
    THEN <<limit>> \o orders
    ELSE <<Head(orders)>> \o InsertLimit(Tail(orders), limit)

AddSellOrder(b, sell, buy, owner) ==
    SellBook(InsertLimit(b.sellOrders, LimitOf(Len(b.sellOrders) + 1, sell, buy, owner)),
             b.dirtyOrders \cup {Len(b.sellOrders) + 1}, b.dirtiesOrders \cup {<<1, 2>>})

(***************************************************************************)
(* SellSpec: orders are put on the pool (1, 2), then coin 1 is sold        *)
(***************************************************************************)

\* The most orders on the pool.
MaxSellOrders == 2

SellReserves == {<<1000000, 1000000>>, <<1000000, 900000>>, <<10000, 40000>>}

SellOrderArgs == {<<500, 450, "Mx01">>, <<500, 450, "Mx02">>, <<5000, 4750, "Mx01">>}

SellAmounts == {100, 500, 2000, 54400, 60000}

SellInit ==
    /\ \E r \in SellReserves : db = PoolTree(Big(r[1]), Big(r[2]))
    /\ pairs = [k \in Keys |-> Absent]
    /\ dirties = {}
    /\ nextID = 0
    /\ dirtyNextID = FALSE
    /\ checker = [c \in Coins |-> Big(0)]
    /\ book = SellBook(<<>>, {}, {})
    /\ Started
    /\ last = NoCall
    /\ prev = NoCall
    /\ steps = 0

DoAddSellOrder(sell, buy, owner) ==
    BlockStep("AddOrder", 1, 2, <<sell, buy, owner>>,
              Outcome(Pair(Self, 1, 2).s, AddSellOrder(book, sell, buy, owner), tree,
                      ledger, "", "", <<Len(book.sellOrders) + 1>>))

SellOutcome(sold) == Outcome(sold.s, sold.b, tree, ledger, sold.panic, "", sold.ret)

DoSellWithOrders(amount0In) ==
    BlockStep("SellWithOrders", 1, 2, <<amount0In>>,
              SellOutcome(SellWithOrders(Pair(Self, 1, 2).s, Pair(Self, 1, 2).p, book,
                                         amount0In)))

SellAddOrder ==
    /\ last.op \in {"", "AddOrder"}
    /\ Len(book.sellOrders) < MaxSellOrders
    /\ \E a \in SellOrderArgs : DoAddSellOrder(Big(a[1]), Big(a[2]), a[3])

SellSell ==
    /\ last.op \in {"", "AddOrder"}
    /\ \E a \in SellAmounts : DoSellWithOrders(Big(a))

SellNext ==
    \/ SellAddOrder
    \/ SellSell

SellSpec == SellInit /\ [][SellNext]_vars

(***************************************************************************)
(* DrainSpec: CheckSwap and Swap on a pool as it is committed, and as a    *)
(* PairBurn leaves it                                                      *)
(***************************************************************************)

\* The liquidity burnt out of a total supply of 1: all of it, and twice it.
DrainLiquidity == {1, 2}

\* The amounts of the swaps.
DrainAmounts == {Big(0), Big(1), Big(2), Big(1000)}

DrainBurn ==
    /\ steps = 0
    /\ \E l \in DrainLiquidity : DoPairBurn(1, 2, Big(l), Big(0), Big(0), Big(1))

DrainCheckSwap ==
    /\ last.op \in {"", "PairBurn"}
    /\ \E c \in PoolPairs, a0In \in DrainAmounts, a1Out \in DrainAmounts :
           DoCheckSwap(c[1], c[2], a0In, a1Out)

DrainSwap ==
    /\ last.op \in {"", "PairBurn"}
    /\ \E c \in PoolPairs, a0In \in DrainAmounts, a1Out \in DrainAmounts :
           DoSwap(c[1], c[2], a0In, Big(0), Big(0), a1Out)

DrainNext ==
    \/ DrainBurn
    \/ DrainCheckSwap
    \/ DrainSwap

DrainSpec == PoolInit /\ [][DrainNext]_vars

(***************************************************************************)
(* Properties of SellSpec                                                  *)
(***************************************************************************)

\* The pool (1, 2) as the tree holds it, which is how a sell finds it, and as
\* the registry holds it now.
CommittedPool == db.data[<<1, 2>>].data

LoadedPool == pairs[<<1, 2>>].data

\* The last call sold amount0In with the pool at (reserve0, reserve1) and one
\* order (sell, buy) on it.
SoldToOneOrder(amount0In, reserve0, reserve1, sell, buy) ==
    /\ last.op = "SellWithOrders"
    /\ last.args = <<Big(amount0In)>>
    /\ Reserves(CommittedPool) = <<Big(reserve0), Big(reserve1)>>
    /\ Len(last.pre.sellOrders) = 1
    /\ last.pre.sellOrders[1].Sell = Big(sell)
    /\ last.pre.sellOrders[1].Buy = Big(buy)

\* C24 as claimed: with the reserves (1000000, 1000000) and the one order
\* (500, 450), a sell of 2000 fills the order first: its owner is credited
\* 499, each reserve gets 1 of commission, and the other 1500 are swapped
\* with the pool.
C24_OrderFilledFirst ==
    SoldToOneOrder(2000, 1000000, 1000000, 500, 450) =>
        /\ last.panic = ""
        /\ last.ret[2] = (last.pre.sellOrders[1].Owner :> Big(499))
        /\ Sign(book.sellOrders[1].Sell) = 0
        /\ LoadedPool.Reserve0 = Big(1000000 + 1500 + 1)

\* C24: with the reserves (1000000, 1000000) and the one order (500, 450), a
\* sell of 2000 does not reach the order, as the pool alone takes more than
\* 2000 before its price is down to 0.9: the 2000 are swapped with the pool
\* for 1992, the order stays as it was and no owner is credited.
C24_OrderNotReached ==
    SoldToOneOrder(2000, 1000000, 1000000, 500, 450) =>
        /\ last.panic = ""
        /\ last.ret = <<Big(1992), <<>>>>
        /\ book.sellOrders = last.pre.sellOrders
        /\ Reserves(LoadedPool) = <<Big(1002000), Big(998008)>>
        /\ Cmp(CalculateSellAmount0ForPrice(CommittedPool,
                                            LimitPrice(last.pre.sellOrders[1])),
               Big(2000)) = 1

C24_Witness ==
    /\ SoldToOneOrder(2000, 1000000, 1000000, 500, 450)
    /\ last.panic = ""
    /\ last.ret[1] = Big(1992)

\* C25 as claimed: a sell of 100 that an order (500, 450) at the price of the
\* pool takes whole, as a part of what it offers, completes, leaves the order
\* with (400, 360) and leaves the reserves as they were.
C25_PartialFillCompletes ==
    SoldToOneOrder(100, 1000000, 900000, 500, 450) =>
        /\ last.panic = ""
        /\ book.sellOrders[1].Sell = Big(400)
        /\ book.sellOrders[1].Buy = Big(360)
        /\ Reserves(LoadedPool) = Reserves(CommittedPool)

\* What the owners map credits to an owner, and to all of them.
CreditOf(owners, owner) == IF owner \in DOMAIN owners THEN owners[owner] ELSE Big(0)

CreditTotal(owners) == Add(CreditOf(owners, "Mx01"), CreditOf(owners, "Mx02"))

RECURSIVE ReleasedFrom(_, _, _)
\* The coin 1 that the orders i.. of the book before gave up to the book after.
ReleasedFrom(before, after, i) ==
    IF i > Len(before) THEN Big(0)
    ELSE Add(Sub(before[i].Buy, after[i].Buy), ReleasedFrom(before, after, i + 1))

RECURSIVE ReleasedCommissionFrom(_, _, _)
\* The order commission on that coin 1, order by order.
ReleasedCommissionFrom(before, after, i) ==
    IF i > Len(before) THEN Big(0)
    ELSE Add(OrderCommission(Sub(before[i].Buy, after[i].Buy)),
             ReleasedCommissionFrom(before, after, i + 1))

\* C26 as claimed: a sell with orders that completes conserves value.  The
\* amount sold is what the returned owners map credits to the owners of the
\* filled orders plus what reserve 0 gained, and the amount returned is what
\* the filled orders released net of commission, plus what reserve 1 lost net
\* of the commission it was given; whatever the orders and their owners.
C26_SellConserves ==
    (last.op = "SellWithOrders" /\ last.panic = "") =>
        /\ last.args[1] = Add(CreditTotal(last.ret[2]),
                              Sub(LoadedPool.Reserve0, CommittedPool.Reserve0))
        /\ last.ret[1] =
               Add(Sub(ReleasedFrom(last.pre.sellOrders, book.sellOrders, 1),
                       ReleasedCommissionFrom(last.pre.sellOrders, book.sellOrders, 1)),
                   Add(Sub(CommittedPool.Reserve1, LoadedPool.Reserve1),
                       ReleasedCommissionFrom(last.pre.sellOrders, book.sellOrders, 1)))

(***************************************************************************)
(* Properties of the reserves                                              *)
(***************************************************************************)

\* The calls that change reserves.
ReserveOps == {"PairCreate", "PairMint", "PairBurn", "PairSell", "PairBuy"}

\* No pair of the registry has a negative reserve.
ReservesNonNegative ==
    \A k \in Keys :
        pairs[k].st = "pair" =>
            Sign(pairs[k].data.Reserve0) >= 0 /\ Sign(pairs[k].data.Reserve1) >= 0

\* C28 as claimed: after a PairCreate, PairMint, PairBurn, PairSell or PairBuy
\* with non-negative arguments that completes, no pair has a negative
\* reserve.
C28_ReservesNeverNegative ==
    (last.op \in ReserveOps /\ last.panic = "") => ReservesNonNegative

(***************************************************************************)
(* Properties of CheckSwap, PairSell and PairBuy                          *)
(***************************************************************************)

\* The last call was Pair.Swap(amount0In, 0, 0, amount1Out).
SwappedForOut ==
    /\ last.op = "Swap"
    /\ last.args[2] = Big(0)
    /\ last.args[3] = Big(0)

\* What Pair.CheckSwap reports for the arguments of the last call on the
\* registry the call was made on.
CheckedBefore ==
    PairDoCheckSwap(last.reg, last.coins[1], last.coins[2], last.args[1], last.args[4])

\* The pair of the last call has gained amount0In and lost amount1Out.
ReservesMoved(amount0In, amount1Out) ==
    Reserves(Now) =
        <<Add(last.pre.Reserve0, amount0In), Sub(last.pre.Reserve1, amount1Out)>>

\* C29 as claimed: CheckSwap(amount0In, amount1Out) reports no error exactly
\* when Swap(amount0In, 0, 0, amount1Out) completes on the same pool, the
\* error it reports is the one Swap aborts with, and a Swap that completes
\* moves the reserves by (+amount0In, -amount1Out).
C29_CheckSwapIsDryRun ==
    SwappedForOut =>
        /\ (CheckedBefore.err = "") <=> (last.panic = "")
        /\ CheckedBefore.err # "" => last.panic = CheckedBefore.err
        /\ last.panic = "" => ReservesMoved(last.args[1], last.args[4])

\* C30: PairSell aborts and leaves the pair as it was, or returns at least
\* minAmount1Out for amount0In and moves the reserves by just that; PairBuy
\* aborts and leaves the pair as it was, or charges at most maxAmount0In for
\* amount1Out and moves the reserves by just that.
C30_SlippageBounds ==
    /\ (last.op = "PairSell" /\ last.panic # "") => Now = last.pre
    /\ (last.op = "PairSell" /\ last.panic = "") =>
           /\ Cmp(last.ret[2], last.args[2]) >= 0
           /\ last.ret[1] = last.args[1]
           /\ ReservesMoved(last.args[1], last.ret[2])
    /\ (last.op = "PairBuy" /\ last.panic # "") => Now = last.pre
    /\ (last.op = "PairBuy" /\ last.panic = "") =>
           /\ Cmp(last.ret[1], last.args[1]) <= 0
           /\ last.ret[2] = last.args[2]
           /\ ReservesMoved(last.ret[1], last.args[2])

\* A PairSell with a minimum asked for has returned.
C30_Witness ==
    /\ last.op = "PairSell"
    /\ last.panic = ""
    /\ Sign(last.args[2]) = 1
    /\ Cmp(last.ret[2], last.args[2]) >= 0

(***************************************************************************)
(* CheckerSpec: a chain starts from a genesis state, which Import reads    *)
(* into a Swap made over an empty tree, and calls that move reserves       *)
(* follow.                                                                 *)
(***************************************************************************)

\* Number of calls in a run of CheckerSpec.
MaxCheckerSteps == 3

\* types.Pool without orders
GenesisPool(coin0, coin1, r0, r1, id) ==
    [Coin0 |-> coin0, Coin1 |-> coin1, Reserve0 |-> BigString(Big(r0)),
     Reserve1 |-> BigString(Big(r1)), ID |-> id, Orders |-> <<>>]

\* The genesis states of the runs: no pool, one pool, two pools with a coin
\* in common, and a pool that names the greater coin first.
CheckerStates ==
    {NoAppState,
     AppState(<<GenesisPool(1, 2, 10000, 40000, 1)>>, 0),
     AppState(<<GenesisPool(1, 2, 10000, 40000, 1), GenesisPool(2, 3, 5000, 5000, 2)>>, 0),
     AppState(<<GenesisPool(2, 1, 40000, 10000, 1)>>, 0)}

CheckerInit ==
    /\ New(EmptyTree)
    /\ tree = db
    /\ ledger = NoLedger
    /\ genesis \in CheckerStates
    /\ modified = {}
    /\ handed = {}
    /\ locks = NoLocks
    /\ votes = NoVotes
    /\ last = NoCall
    /\ prev = NoCall
    /\ steps = 0

\* InitChain: Import is the first call on the Swap of a chain.
CheckerImport ==
    /\ steps = 0
    /\ DoImport

CheckerPairCreate ==
    /\ steps < MaxCheckerSteps
    /\ \E c \in {<<1, 2>>, <<3, 2>>, <<1, 1>>} :
           DoPairCreate(c[1], c[2], Big(10000), Big(40000))

CheckerPairMint ==
    /\ steps < MaxCheckerSteps
    /\ \E c \in TradedPairs : DoPairMint(c[1], c[2], Big(1000), Big(4000), Big(20000))

CheckerPairBurn ==
    /\ steps < MaxCheckerSteps
    /\ \E c \in TradedPairs, l \in {Big(1000), Big(20000)} :
           DoPairBurn(c[1], c[2], l, Big(0), Big(0), Big(20000))

CheckerPairSell ==
    /\ steps < MaxCheckerSteps
    /\ \E c \in TradedPairs : DoPairSell(c[1], c[2], Big(1000), Big(0))

CheckerPairBuy ==
    /\ steps < MaxCheckerSteps
    /\ \E c \in TradedPairs : DoPairBuy(c[1], c[2], Big(2000), Big(1000))

CheckerNext ==
    \/ CheckerImport
    \/ CheckerPairCreate
    \/ CheckerPairMint
    \/ CheckerPairBurn
    \/ CheckerPairSell
    \/ CheckerPairBuy

CheckerSpec == CheckerInit /\ [][CheckerNext]_vars

\* What the pair under the key k holds of the coin.
HeldIn(s, coin, k) ==
    IF s.pairs[k].st # "pair" THEN Big(0)
    ELSE Add(IF k[1] = coin THEN s.pairs[k].data.Reserve0 ELSE Big(0),
             IF k[2] = coin THEN s.pairs[k].data.Reserve1 ELSE Big(0))

RECURSIVE ReserveSum(_, _, _)
\* The sum of the reserves of the coin over the pairs under the keys.
ReserveSum(s, coin, keys) ==
    IF keys = {} THEN Big(0)
    ELSE Add(HeldIn(s, coin, CHOOSE k \in keys : TRUE),
             ReserveSum(s, coin, keys \ {CHOOSE k \in keys : TRUE}))

QuoteAmounts == {Big(0), Big(1), Big(MaxAmount), Big(1000)}

QuoteOrderArgs == {<<5, 4, "Mx01">>, <<500, 450, "Mx02">>}

QuoteInit ==
    /\ \E r \in PoolReserves : db = PoolTree(Big(r[1]), Big(r[2]))
    /\ pairs = [k \in Keys |-> Absent]
    /\ dirties = {}
    /\ nextID = 0
    /\ dirtyNextID = FALSE
    /\ checker = [c \in Coins |-> Big(0)]
    /\ book = SellBook(<<>>, {}, {})
    /\ Started
    /\ last = NoCall
    /\ prev = NoCall
    /\ steps = 0

\* What the quote of the pool and the orders leaves (nothing is changed) and
\* returns: the amount and the orders touched.
QuoteOutcome(s, calc) ==
    Outcome(s, book, tree, ledger, calc.panic, "", <<calc.amount1Out, calc.orders>>)

\* Pair.CalculateBuyForSellWithOrders(amount0In) on the pool (1, 2)
DoCalculateBuyForSellWithOrders(amount0In) ==
    BlockStep("CalculateBuyForSellWithOrders", 1, 2, <<amount0In>>,
              QuoteOutcome(Pair(Self, 1, 2).s,
                           calculateBuyForSellWithOrders(
                               View(Pair(Self, 1, 2).s, Pair(Self, 1, 2).p), book,
                               amount0In)))

QuoteAddOrder ==
    /\ last.op = ""
    /\ \E a \in QuoteOrderArgs : DoAddSellOrder(Big(a[1]), Big(a[2]), a[3])

QuoteCalculate ==
    /\ last.op \in {"", "AddOrder"}
    /\ \E a \in QuoteAmounts : DoCalculateBuyForSellWithOrders(a)

QuoteNext ==
    \/ QuoteAddOrder
    \/ QuoteCalculate

QuoteSpec == QuoteInit /\ [][QuoteNext]_vars

\* The pool-only quote of the amount of the last call, on the pool as it was.
PoolOnlyQuote == CalculateBuyForSell(Pre(last.reg, 1, 2), last.args[1])

QuotedOnEmptyBook ==
    last.op = "CalculateBuyForSellWithOrders" /\ last.pre.sellOrders = <<>>

\* C32: on a pool without orders CalculateBuyForSellWithOrders(amount0In)
\* returns what CalculateBuyForSell(amount0In) returns, or 0 where that is
\* nil, and touches no order.
C32_EmptyBookQuote ==
    QuotedOnEmptyBook =>
        /\ last.panic = ""
        /\ PoolOnlyQuote.panic = ""
        /\ last.ret[1] = IF PoolOnlyQuote.v = Nil THEN Big(0) ELSE PoolOnlyQuote.v
        /\ last.ret[2] = <<>>

\* A quote on an empty book for which the pool alone gives something.
C32_Witness ==
    /\ QuotedOnEmptyBook
    /\ PoolOnlyQuote.v # Nil
    /\ Sign(last.ret[1]) = 1

(***************************************************************************)
(* LockSpec: Commit on the executor while other goroutines call the        *)
(* methods that lock the registry                                          *)
(*                                                                         *)
(* sync.RWMutex: RLock waits while a goroutine holds the write lock or     *)
(* waits for it in Lock; Lock first shuts out the other writers and the    *)
(* new readers, then waits for the readers there are to leave.  A          *)
(* goroutine goes idle -> ... -> done through one call.                    *)
(***************************************************************************)

\* The calls of the callers: all take muPairs.Lock.
LockCalls == {"Pair", "SwapPool", "SwapPoolExist", "markDirty"}

NoReader == \A g \in Goroutines : locks.readers[g] = 0

\* RLock returns at once: no writer holds the mutex or waits for it.
CanRLock == locks.writer = "" /\ locks.pending = {}

\* What the steps of LockSpec leave alone.
LockFrame ==
    UNCHANGED <<db, pairs, nextID, checker, last, prev, steps, tree, book, ledger,
                genesis, modified, handed, votes>>

\* The executor goes to the place pc with r read locks more.
ExecutorAt(pc, r) ==
    [locks EXCEPT !.pc["executor"] = pc, !.call["executor"] = "Commit",
                  !.readers["executor"] = @ + r]

\* Commit: s.muNextID.Lock()
CommitLockNextID ==
    /\ locks.pc["executor"] = "idle"
    /\ locks.held = ""
    /\ locks' = [ExecutorAt("nextID", 0) EXCEPT !.held = "executor"]
    /\ UNCHANGED <<dirties, dirtyNextID>>
    /\ LockFrame

\* Commit: the counter is written, s.muNextID.Unlock()
CommitUnlockNextID ==
    /\ locks.pc["executor"] = "nextID"
    /\ locks' = [ExecutorAt("unlocked", 0) EXCEPT !.held = ""]
    /\ dirtyNextID' = FALSE
    /\ UNCHANGED dirties
    /\ LockFrame

\* Commit: s.muPairs.RLock(), released when Commit returns
CommitRLock ==
    /\ locks.pc["executor"] = "unlocked"
    /\ CanRLock
    /\ locks' = ExecutorAt("reading", 1)
    /\ UNCHANGED <<dirties, dirtyNextID>>
    /\ LockFrame

\* getOrderedDirtyPairs: s.muPairs.RLock()
CommitPairsRLock ==
    /\ locks.pc["executor"] = "reading"
    /\ CanRLock
    /\ locks' = ExecutorAt("pairs", 1)
    /\ UNCHANGED <<dirties, dirtyNextID>>
    /\ LockFrame

\* getOrderedDirtyPairs: s.muPairs.RUnlock(); the dirty pairs are written and
\* s.dirties is emptied
CommitPairsRUnlock ==
    /\ locks.pc["executor"] = "pairs"
    /\ locks' = ExecutorAt("pairsDone", -1)
    /\ dirties' = {}
    /\ UNCHANGED dirtyNextID
    /\ LockFrame

\* getOrderedDirtyOrderPairs: s.muPairs.RLock()
CommitOrdersRLock ==
    /\ locks.pc["executor"] = "pairsDone"
    /\ CanRLock
    /\ locks' = ExecutorAt("orders", 1)
    /\ UNCHANGED <<dirties, dirtyNextID>>
    /\ LockFrame

\* getOrderedDirtyOrderPairs: s.muPairs.RUnlock(); the dirty orders are
\* written
CommitOrdersRUnlock ==
    /\ locks.pc["executor"] = "orders"
    /\ locks' = ExecutorAt("ordersDone", -1)
    /\ UNCHANGED <<dirties, dirtyNextID>>
    /\ LockFrame

\* Commit returns: the deferred s.muPairs.RUnlock()
CommitReturn ==
    /\ locks.pc["executor"] = "ordersDone"
    /\ locks' = ExecutorAt("done", -1)
    /\ UNCHANGED <<dirties, dirtyNextID>>
    /\ LockFrame

\* A caller enters one of the calls, whose first statement is
\* s.muPairs.Lock().
CallerCall ==
    /\ \E g \in Callers, c \in LockCalls :
           /\ locks.pc[g] = "idle"
           /\ locks' = [locks EXCEPT !.pc[g] = "called", !.call[g] = c]
    /\ UNCHANGED <<dirties, dirtyNextID>>
    /\ LockFrame

\* Lock: no other writer is in Lock or holds the mutex; from now on RLock
\* waits.
CallerAnnounce ==
    /\ \E g \in Callers :
           /\ locks.pc[g] = "called"
           /\ CanRLock
           /\ locks' = [locks EXCEPT !.pc[g] = "waiting", !.pending = {g}]
    /\ UNCHANGED <<dirties, dirtyNextID>>
    /\ LockFrame

\* Lock returns: the readers have left.
CallerAcquire ==
    /\ \E g \in Callers :
           /\ locks.pc[g] = "waiting"
           /\ NoReader
           /\ locks' = [locks EXCEPT !.pc[g] = "holding", !.pending = {},
                                     !.writer = g]
    /\ UNCHANGED <<dirties, dirtyNextID>>
    /\ LockFrame

\* The call returns: markDirty has put the key of the pair in s.dirties, the
\* other calls have read the pair; the deferred s.muPairs.Unlock().
CallerReturn ==
    /\ \E g \in Callers :
           /\ locks.pc[g] = "holding"
           /\ locks' = [locks EXCEPT !.pc[g] = "done", !.writer = ""]
           /\ dirties' = IF locks.call[g] = "markDirty" THEN dirties \cup {<<1, 2>>}
                         ELSE dirties
    /\ UNCHANGED dirtyNextID
    /\ LockFrame

LockInit ==
    /\ New(PoolTree(Big(10000), Big(40000)))
    /\ Started
    /\ last = NoCall
    /\ prev = NoCall
    /\ steps = 0

LockNext ==
    \/ CommitLockNextID
    \/ CommitUnlockNextID
    \/ CommitRLock
    \/ CommitPairsRLock
    \/ CommitPairsRUnlock
    \/ CommitOrdersRLock
    \/ CommitOrdersRUnlock
    \/ CommitReturn
    \/ CallerCall
    \/ CallerAnnounce
    \/ CallerAcquire
    \/ CallerReturn

LockSpec == LockInit /\ [][LockNext]_vars

\* The goroutine is in a call.
InCall(g) == locks.pc[g] \notin {"idle", "done"}

\* The goroutine is in a call at a lock it cannot take now.
Blocked(g) ==
    \/ locks.pc[g] \in {"unlocked", "reading", "pairsDone", "called"} /\ ~CanRLock
    \/ locks.pc[g] = "waiting" /\ ~NoReader

\* C33 as claimed: Commit and the calls that lock the registry never wait for
\* one another for ever: whenever goroutines are in a call, one of them can
\* take its next step.
C33_CommitNeverDeadlocks ==
    (\E g \in Goroutines : InCall(g)) => \E g \in Goroutines : InCall(g) /\ ~Blocked(g)

(***************************************************************************)
(* ExpirySpec: orders are added and committed; in the next block they are  *)
(* cancelled, filled whole by a swap, or expired, before any Commit.       *)
(***************************************************************************)

\* Number of calls in a run of ExpirySpec.
MaxExpirySteps == 6

\* The heights ExpireOrders is called with in ExpirySpec.
ExpiryHeights == {3, 5}

\* What the owner of an order filled whole receives: WantBuy less the order
\* commission, in the coin the order buys.
FillCredit(l) ==
    <<l.Owner, IF l.IsBuy THEN l.PairKey[2] ELSE l.PairKey[1],
      l.WantBuy - (l.WantBuy * (commissionOrder \div 2)) \div 1000>>

\* A swap fills the order id whole: both volumes reach zero, the order is
\* marked empty and dirty, and the caller credits its owner.
FillOrder(b, l, id) ==
    [b |-> MarkDirtyOrder(b, [getOrder(b, id) EXCEPT !.WantBuy = 0, !.WantSell = 0]),
     l |-> [l EXCEPT !.balance = Append(@, FillCredit(getOrder(b, id)))]]

DoFillOrder(id) ==
    BlockStep("FillOrder", 0, 0, <<id>>,
              Outcome(Self, FillOrder(book, ledger, id).b, tree,
                      FillOrder(book, ledger, id).l, "", "", <<>>))

\* The orders of the first block are in the tree the Swap reads.
ExpiryCommitted == RecordedIDs # {}

ExpiryMayCall ==
    /\ steps < MaxExpirySteps
    /\ ExpiryCommitted
    /\ last.panic = ""
    /\ last.op # "Commit"

ExpiryAdd ==
    /\ ~ExpiryCommitted
    /\ steps < 2
    /\ last.op \in {"", "PairAddOrder"}
    /\ \E a \in OrderArgs : DoPairAddOrder(a[1], a[2], a[3], a[4], a[5], a[6])

ExpiryCommit ==
    /\ ~ExpiryCommitted
    /\ last.op = "PairAddOrder"
    /\ DoCommit

ExpirySetImmutableTree ==
    /\ last.op = "Commit"
    /\ last.err = ""
    /\ DoSetImmutableTree

ExpiryRemove ==
    /\ ExpiryMayCall
    /\ \E id \in RemoveIDs : DoPairRemoveLimitOrder(id)

\* A swap meets the orders that are in the book only.
ExpiryFill ==
    /\ ExpiryMayCall
    /\ \E id \in RemoveIDs :
           /\ ~isEmpty(getOrder(book, id))
           /\ DoFillOrder(id)

ExpiryExpire ==
    /\ ExpiryMayCall
    /\ \E h \in ExpiryHeights : DoExpireOrders(h)

ExpiryNext ==
    \/ ExpiryAdd
    \/ ExpiryCommit
    \/ ExpirySetImmutableTree
    \/ ExpiryRemove
    \/ ExpiryFill
    \/ ExpiryExpire

ExpirySpec == OrderInit /\ [][ExpiryNext]_vars

\* The events and the credits a step has added to the ledger.
NewEvents == SubSeq(ledger'.events, Len(ledger.events) + 1, Len(ledger'.events))

NewCredits == SubSeq(ledger'.balance, Len(ledger.balance) + 1, Len(ledger'.balance))

SnapshotPair(key, pd, b, markDirty, markDirtyOrders) ==
    [PairKey |-> key, pairData |-> pd, orders |-> b,
     markDirty |-> markDirty, markDirtyOrders |-> markDirtyOrders]

\* The book of the Swap after the markDirtyOrders of the pair sp is called.
CallMarkDirtyOrders(b, sp) ==
    IF sp.markDirtyOrders = "Swap.markDirtyOrders"
    THEN [b EXCEPT !.dirtiesOrders = @ \cup {sp.PairKey}]
    ELSE b

\* Pair.update on a returned pair: markDirty does nothing.
SnapshotUpdate(sp, amount0, amount1) ==
    [sp EXCEPT !.pairData.Reserve0 = Add(@, amount0),
               !.pairData.Reserve1 = Add(@, amount1)]

\* CalcDiffPool: what the orders take and pay of a swap, and what is left to
\* the pool; the orders of b are updated as Pair.updateOrders does.
CalcDiffPool(amount0In, amount1Out, orders, b) ==
    SellOrdersFrom(orders, 1, Filled(Big(0), Big(0), Big(0), Big(0), <<>>, b))

\* The first update of the returned pair is skipped when nothing is left to
\* the pool.
SnapshotSwapped(sp, amount0, amount1) ==
    IF Sign(amount0) # 0 \/ Sign(amount1) # 0
    THEN SnapshotUpdate(sp, amount0, Neg(amount1))
    ELSE sp

\* What AddLastSwapStepWithOrders leaves of the book of the Swap, and the
\* pair it returns.
Snapshotted(b, panic, sp) == [b |-> b, panic |-> panic, ret |-> <<sp>>]

\* Pair.updateOrders on the returned pair: every order that took part is
\* updated in the orders of the pair and marked dirty through the pair's
\* markDirtyOrders.
SnapshotUpdateOrders(b, sp, orders, acc) ==
    Snapshotted(IF orders = <<>> THEN b ELSE CallMarkDirtyOrders(b, sp), "",
                [sp EXCEPT !.orders = SellBook(acc.b.sellOrders, acc.b.dirtyOrders,
                                               sp.orders.dirtiesOrders)])

SnapshotFilled(b, sp, amount0In, amount1Out, orders, acc) ==
    SnapshotUpdateOrders(b,
        SnapshotUpdate(SnapshotSwapped(sp, Sub(amount0In, acc.amount0orders),
                                       Sub(amount1Out, acc.amount1orders)),
                       acc.commission0orders, acc.commission1orders),
        orders, acc)

SnapshotCalculated(pd, key, b, amount0In, calc) ==
    IF calc.panic # "" THEN [b |-> b, panic |-> calc.panic, ret |-> <<>>]
    ELSE SnapshotFilled(b,
             SnapshotPair(key, [pd EXCEPT !.Reserve0 = Reserves(pd)[1],
                                          !.Reserve1 = Reserves(pd)[2]],
                          SellBook(b.sellOrders, b.dirtyOrders, {}),
                          "func() {}", "Swap.markDirtyOrders"),
             amount0In, calc.amount1Out, calc.orders,
             CalcDiffPool(amount0In, calc.amount1Out, calc.orders, b))

\* Pair.AddLastSwapStepWithOrders(amount0In, amount1Out) for amounts that are
\* not negative, with amount1Out what the pair quotes for amount0In.
AddLastSwapStepWithOrders(s, p, b, amount0In) ==
    SnapshotCalculated(View(s, p), p.key, b, amount0In,
                       calculateBuyForSellWithOrders(View(s, p), b, amount0In))

(***************************************************************************)
(* SnapshotSpec: a pool with orders, committed or of this block, is        *)
(* planned on with AddLastSwapStepWithOrders, and the returned pair is     *)
(* updated.                                                                *)
(***************************************************************************)

\* The amounts the returned pair is updated by.
SnapshotAmounts == {<<100, 0>>, <<0, 250>>}

\* The amounts of coin 1 that are planned with.
SnapshotSells == {100, 2000, 54400}

RECURSIVE BookOf(_)
\* The orders of args on the pool, after the Commit that follows them.
BookOf(args) ==
    IF args = <<>> THEN SellBook(<<>>, {}, {})
    ELSE SellBook(AddSellOrder(BookOf(Tail(args)), Big(args[1][1]), Big(args[1][2]),
                               args[1][3]).sellOrders, {}, {})

CommittedBooks ==
    {BookOf(<<>>)} \cup {BookOf(<<a>>) : a \in SellOrderArgs}
        \cup {BookOf(<<a, b>>) : a \in SellOrderArgs, b \in SellOrderArgs}

SnapshotReserves == {<<1000000, 1000000>>, <<1000000, 900000>>}

SnapshotInit ==
    /\ \E r \in SnapshotReserves : db = PoolTree(Big(r[1]), Big(r[2]))
    /\ pairs = [k \in Keys |-> Absent]
    /\ dirties = {}
    /\ nextID = 0
    /\ dirtyNextID = FALSE
    /\ checker = [c \in Coins |-> Big(0)]
    /\ book \in CommittedBooks
    /\ Started
    /\ last = NoCall
    /\ prev = NoCall
    /\ steps = 0

DoAddLastSwapStepWithOrders(amount0In) ==
    LET g == Pair(Self, 1, 2)
        r == AddLastSwapStepWithOrders(g.s, g.p, book, amount0In)
    IN  BlockStep("AddLastSwapStepWithOrders", 1, 2, <<amount0In>>,
                  Outcome(g.s, r.b, tree, ledger, r.panic, "", r.ret))

\* Pair.update on the pair that was returned
DoSnapshotUpdate(amount0, amount1) ==
    BlockStep("update", 1, 2, <<amount0, amount1>>,
              Outcome(Self, book, tree, ledger, "", "",
                      <<SnapshotUpdate(last.ret[1], amount0, amount1)>>))

SnapshotAddOrder ==
    /\ last.op \in {"", "AddOrder"}
    /\ Len(book.sellOrders) < MaxSellOrders
    /\ \E a \in SellOrderArgs : DoAddSellOrder(Big(a[1]), Big(a[2]), a[3])

SnapshotStep ==
    /\ last.op \in {"", "AddOrder"}
    /\ \E a \in SnapshotSells : DoAddLastSwapStepWithOrders(Big(a))

SnapshotChange ==
    /\ last.op = "AddLastSwapStepWithOrders"
    /\ last.panic = ""
    /\ \E a \in SnapshotAmounts : DoSnapshotUpdate(Big(a[1]), Big(a[2]))

SnapshotNext ==
    \/ SnapshotAddOrder
    \/ SnapshotStep
    \/ SnapshotChange

SnapshotSpec == SnapshotInit /\ [][SnapshotNext]_vars

\* The pool (1, 2) as the registry holds it, loaded or not.
OriginalReserves(s) == Reserves(Pre(s, 1, 2))

\* C35: neither AddLastSwapStepWithOrders nor an update of the pair it
\* returned changes the reserves of the original pair, its orders, its dirty
\* orders, or the dirty sets of the registry.
C35_SnapshotIsolated ==
    [][last'.op \in {"AddLastSwapStepWithOrders", "update"} =>
          /\ OriginalReserves([pairs |-> pairs', dirties |-> dirties', nextID |-> nextID',
                               dirtyNextID |-> dirtyNextID'])
                 = OriginalReserves(Self)
          /\ book'.sellOrders = book.sellOrders
          /\ book'.dirtyOrders = book.dirtyOrders
          /\ dirties' = dirties
          /\ book'.dirtiesOrders = book.dirtiesOrders]_vars

(***************************************************************************)
(* package transaction: accounts, commission, SellAllSwapPool              *)
(*                                                                         *)
(* The accounts are the sequence of the AddBalance and SubBalance calls    *)
(* they received, after the balances the run starts with.  The gas coins   *)
(* of the runs have no reserve, so that a commission in a coin that is not *)
(* the base coin can only come from the pool of that coin with the base    *)
(* coin.                                                                   *)
(***************************************************************************)

\* types.GetBaseCoinID: the coin with the least id.
BaseCoinID == CHOOSE c \in Coins : \A d \in Coins : c <= d

CodeOK == "OK"
CodeFailed == "999"
CodeInsufficientFunds == "InsufficientFunds"

RECURSIVE BalanceOf(_, _, _)
\* The sum of the entries of address and coin in a sequence of balance
\* changes.
BalanceOf(changes, address, coin) ==
    IF changes = <<>> THEN Big(0)
    ELSE IF changes[1][1] = address /\ changes[1][2] = coin
    THEN Add(changes[1][3], BalanceOf(Tail(changes), address, coin))
    ELSE BalanceOf(Tail(changes), address, coin)

\* Accounts.GetBalance
GetBalance(l, address, coin) == BalanceOf(l.balance, address, coin)

\* Accounts.AddBalance
AddBalance(l, address, coin, value) ==
    [l EXCEPT !.balance = Append(@, <<address, coin, value>>)]

\* Accounts.SubBalance
SubBalance(l, address, coin, value) == AddBalance(l, address, coin, Neg(value))

\* What a part of Run answers: the registry, the accounts, the checker deltas
\* sent, a panic or a response code, whether the checks of Run had passed,
\* and what was added to the reward pool.
Response(s, l, add, panic, code, checked, reward) ==
    [s |-> s, l |-> l, add |-> add, panic |-> panic, err |-> "",
     ret |-> <<code, checked, reward>>]

\* What commissionFromPool and CalculateCommission return.
Commissioned(s, value, poolSwap, panic, log) ==
    [s |-> s, commission |-> value, poolSwap |-> poolSwap, panic |-> panic, log |-> log]

\* The CheckSwap of commissionFromPool when PairCalculateSellForBuy returned
\* nil: the nil is read after the first two tests of checkSwap.
CheckSwapOfNil(s, pd, amount1Out) ==
    IF Cmp(amount1Out, pd.Reserve1) = 1
    THEN Commissioned(s, Nil, FALSE, "", ErrorInsufficientLiquidity)
    ELSE IF Sign(amount1Out) # 1
    THEN Commissioned(s, Nil, FALSE, "", ErrorInsufficientOutputAmount)
    ELSE Commissioned(s, Nil, FALSE, PanicNilDereference, "")

CommissionChecked(chk, value) ==
    IF chk.panic # "" THEN Commissioned(chk.s, Nil, FALSE, chk.panic, "")
    ELSE IF chk.err # "" THEN Commissioned(chk.s, Nil, FALSE, "", chk.err)
    ELSE Commissioned(chk.s, value, TRUE, "", "")

CommissionQuoted(q, id, commissionInBaseCoin) ==
    IF q.err # ""
    THEN CheckSwapOfNil(q.s, Pre(q.s, id, BaseCoinID), commissionInBaseCoin)
    ELSE CommissionChecked(PairDoCheckSwap(q.s, id, BaseCoinID, q.ret[1],
                                           commissionInBaseCoin), q.ret[1])

\* commissionFromPool
commissionFromPool(s, id, commissionInBaseCoin) ==
    IF ~SwapPoolExist(s, id, BaseCoinID).ret
    THEN Commissioned(SwapPoolExist(s, id, BaseCoinID).s, Nil, FALSE, "",
                      "swap pool not found")
    ELSE CommissionQuoted(PairCalculateSellForBuy(SwapPoolExist(s, id, BaseCoinID).s,
                                                  id, BaseCoinID, commissionInBaseCoin),
                          id, commissionInBaseCoin)

\* CalculateCommission for a gas coin without reserve
CalculateCommission(s, gasCoin, commissionInBaseCoin) ==
    IF gasCoin = BaseCoinID THEN Commissioned(s, commissionInBaseCoin, FALSE, "", "")
    ELSE commissionFromPool(s, gasCoin, commissionInBaseCoin)

\* A transaction: its sender, its gas coin and tx.CommissionInBaseCoin().
Tx(sender, gasCoin, commissionInBaseCoin) ==
    [Sender |-> sender, GasCoin |-> gasCoin, CommissionInBaseCoin |-> commissionInBaseCoin]

SellAllSwapPool(coinToSell, coinToBuy, minimumValueToBuy) ==
    [CoinToSell |-> coinToSell, CoinToBuy |-> coinToBuy,
     MinimumValueToBuy |-> minimumValueToBuy]

\* The end of the delivery of SellAllSwapPool.Run.
SellAllPaid(s, l, add, tx, gasAmount, commissionInBaseCoin) ==
    Response(s, SubBalance(l, tx.Sender, tx.GasCoin, gasAmount), add, "", CodeOK, TRUE,
             commissionInBaseCoin)

SellAllCommission(com, l, add, tx) ==
    IF com.panic # "" THEN Response(com.s, l, add, com.panic, "", TRUE, Big(0))
    ELSE SellAllPaid(com.s, l, add \o com.add, tx, com.ret[1], com.ret[2])

SellAllSold(sell, l, tx, data, c) ==
    IF sell.panic # "" THEN Response(sell.s, l, <<>>, sell.panic, "", TRUE, Big(0))
    ELSE IF c.poolSwap
    THEN SellAllCommission(PairSell(sell.s, tx.GasCoin, BaseCoinID, c.commission,
                                    tx.CommissionInBaseCoin),
                           AddBalance(SubBalance(l, tx.Sender, data.CoinToSell, sell.ret[1]),
                                      tx.Sender, data.CoinToBuy, sell.ret[2]),
                           sell.add, tx)
    ELSE SellAllPaid(sell.s,
                     AddBalance(SubBalance(l, tx.Sender, data.CoinToSell, sell.ret[1]),
                                tx.Sender, data.CoinToBuy, sell.ret[2]),
                     sell.add, tx, c.commission, tx.CommissionInBaseCoin)

\* The delivery of SellAllSwapPool.Run.
SellAllDeliver(s, l, tx, data, c, balance) ==
    SellAllSold(PairSell(s, data.CoinToSell, data.CoinToBuy, balance,
                         data.MinimumValueToBuy), l, tx, data, c)

SellAllSwapChecked(chk, l, tx, data, c, balance, deliver) ==
    IF chk.panic # "" THEN Response(chk.s, l, <<>>, chk.panic, "", FALSE, Big(0))
    ELSE IF chk.err # "" THEN Response(chk.s, l, <<>>, "", CodeFailed, FALSE, Big(0))
    ELSE IF deliver THEN SellAllDeliver(chk.s, l, tx, data, c, balance)
    ELSE Response(chk.s, l, <<>>, "", CodeOK, TRUE, Big(0))

SellAllBalance(l, tx, data, c, balance, deliver) ==
    IF Sign(balance) # 1
    THEN Response(c.s, l, <<>>, "", CodeInsufficientFunds, FALSE, Big(0))
    ELSE SellAllSwapChecked(PairDoCheckSwap(c.s, data.CoinToSell, data.CoinToBuy, balance,
                                            data.MinimumValueToBuy),
                            l, tx, data, c, balance, deliver)

SellAllCommissioned(l, tx, data, c, deliver) ==
    IF c.panic # "" THEN Response(c.s, l, <<>>, c.panic, "", FALSE, Big(0))
    ELSE IF c.log # "" THEN Response(c.s, l, <<>>, "", CodeFailed, FALSE, Big(0))
    ELSE IF tx.GasCoin # data.CoinToSell
            /\ Cmp(GetBalance(l, tx.Sender, tx.GasCoin), c.commission) < 0
    THEN Response(c.s, l, <<>>, "", CodeInsufficientFunds, FALSE, Big(0))
    ELSE SellAllBalance(l, tx, data, c,
                        IF tx.GasCoin = data.CoinToSell
                        THEN Sub(GetBalance(l, tx.Sender, data.CoinToSell), c.commission)
                        ELSE GetBalance(l, tx.Sender, data.CoinToSell),
                        deliver)

\* SellAllSwapPool.Run on a CheckState (deliver = FALSE) or on a State.
SellAllRun(s, l, tx, data, deliver) ==
    IF data.CoinToBuy = data.CoinToSell
    THEN Response(s, l, <<>>, "", CodeFailed, FALSE, Big(0))
    ELSE IF ~SwapPoolExist(s, data.CoinToSell, data.CoinToBuy).ret
    THEN Response(SwapPoolExist(s, data.CoinToSell, data.CoinToBuy).s, l, <<>>, "",
                  CodeFailed, FALSE, Big(0))
    ELSE SellAllCommissioned(l, tx, data,
             CalculateCommission(SwapPoolExist(s, data.CoinToSell, data.CoinToBuy).s,
                                 tx.GasCoin, tx.CommissionInBaseCoin),
             deliver)

(***************************************************************************)
(* SellAllSpec: transactions of one sender on the pool of the base coin    *)
(* with coin 2.                                                            *)
(***************************************************************************)

\* The most transactions of a run.
MaxTxSteps == 2

TxSender == "Mx01"

\* The coin of the pool that is not the base coin.
TxCoin == CHOOSE c \in Coins : c # BaseCoinID /\ \A d \in Coins \ {BaseCoinID} : c <= d

\* The reserves of the pool (base coin, TxCoin).
TxReserves == {<<10000, 40000>>, <<1000000, 1000000>>}

\* What the sender holds of each coin of the pool at the start.
TxBalances == {0, 100, 5000}

\* tx.CommissionInBaseCoin() of the transactions.
TxCommissions == {10, 100}

TxInit ==
    /\ \E r \in TxReserves : New(PoolTree(Big(r[1]), Big(r[2])))
    /\ Started
    /\ last = NoCall
    /\ prev = NoCall
    /\ steps = 0

\* The address that stands for the reward pool Run is given.
RewardPool == "rewardPool"

\* rewardPool.Add(rewardPool, commissionInBaseCoin)
Rewarded(l, reward) ==
    IF Sign(reward) = 0 THEN l ELSE AddBalance(l, RewardPool, BaseCoinID, reward)

\* A run of Run ends with the outcome out.
TxStep(op, tx, data, out) ==
    /\ pairs' = out.s.pairs
    /\ dirties' = out.s.dirties
    /\ nextID' = out.s.nextID
    /\ dirtyNextID' = out.s.dirtyNextID
    /\ checker' = AddCoins(checker, out.add)
    /\ ledger' = Rewarded(out.l, out.ret[3])
    /\ last' = [op |-> op, coins |-> <<BaseCoinID, TxCoin>>, args |-> <<tx, data>>,
                reg |-> Self, pre |-> ledger,
                panic |-> out.panic, err |-> out.err, ret |-> out.ret]
    /\ prev' = last
    /\ steps' = steps + 1
    /\ UNCHANGED <<locks, votes, db, tree, book, genesis, modified, handed>>

\* The sender is given its balances of the two coins of the pool.
TxFund ==
    /\ steps = 0
    /\ last.op = ""
    /\ \E b0 \in TxBalances, b1 \in TxBalances :
           /\ ledger' = AddBalance(AddBalance(ledger, TxSender, BaseCoinID, Big(b0)),
                                   TxSender, TxCoin, Big(b1))
           /\ last' = [NoCall EXCEPT !.op = "Fund", !.args = <<b0, b1>>]
    /\ prev' = last
    /\ UNCHANGED <<locks, votes, db, pairs, dirties, nextID, dirtyNextID, checker, tree, book,
                   genesis, modified, handed, steps>>

TxMayRun ==
    /\ last.op # ""
    /\ last.panic = ""
    /\ steps < MaxTxSteps

SellAllTxs ==
    {<<Tx(TxSender, g, Big(c)), SellAllSwapPool(p[1], p[2], Big(m))>> :
        g \in {BaseCoinID, TxCoin}, c \in TxCommissions,
        p \in {<<BaseCoinID, TxCoin>>, <<TxCoin, BaseCoinID>>, <<TxCoin, TxCoin>>},
        m \in {1, 5000}}

\* Run on the state of the block (deliver) or on a CheckState.
SellAllRuns ==
    /\ TxMayRun
    /\ \E t \in SellAllTxs, deliver \in BOOLEAN :
           TxStep(IF deliver THEN "SellAllSwapPool" ELSE "SellAllSwapPool.Check",
                  t[1], t[2], SellAllRun(Self, ledger, t[1], t[2], deliver))

SellAllNext ==
    \/ TxFund
    \/ SellAllRuns

SellAllSpec == TxInit /\ [][SellAllNext]_vars

\* The checks of the last Run had passed.
ChecksPassed == last.ret # <<>> /\ last.ret[2]

\* C36: a delivery of SellAllSwapPool whose checks passed ends without a
\* panic and leaves the sender none of the coin that was sold.
C36_SellAllDelivers ==
    (last.op = "SellAllSwapPool" /\ ChecksPassed) =>
        /\ last.panic = ""
        /\ last.ret[1] = CodeOK
        /\ Sign(GetBalance(ledger, TxSender, last.args[2].CoinToSell)) = 0

(***************************************************************************)
(* RemoveSwapPoolData                                                      *)
(*                                                                         *)
(* The liquidity of a provider is its balance of the liquidity coin of the *)
(* pool, and the total supply is the sum of these balances.                *)
(***************************************************************************)

CodeCrossConvert == "CrossConvert"
CodePairNotExists == "PairNotExists"
CodeInsufficientLiquidityBalance == "InsufficientLiquidityBalance"
CodeInsufficientLiquidityBurned == "InsufficientLiquidityBurned"
CodeSwapPoolUnknown == "SwapPoolUnknown"

\* The coin that stands for the liquidity of the pool: an id past those of
\* Coins.
LiquidityCoin == Cardinality(Coins) + 1

\* The address that holds the liquidity of the other providers and the
\* minimum liquidity.
OtherProviders == "Mx00"

\* The providers of the runs.
Providers == {"Mx01", "Mx02", OtherProviders}

RECURSIVE SupplyOf(_)
\* The total supply of liquidity: the sum of the balances of LiquidityCoin.
SupplyOf(changes) ==
    IF changes = <<>> THEN Big(0)
    ELSE IF changes[1][2] = LiquidityCoin
    THEN Add(changes[1][3], SupplyOf(Tail(changes)))
    ELSE SupplyOf(Tail(changes))

TotalSupply(l) == SupplyOf(l.balance)

RemoveSwapPoolData(coin0, coin1, liquidity, minimumVolume0, minimumVolume1) ==
    [Coin0 |-> coin0, Coin1 |-> coin1, Liquidity |-> liquidity,
     MinimumVolume0 |-> minimumVolume0, MinimumVolume1 |-> minimumVolume1]

\* Swap.CheckBurn of a provider: the provider's balance, then Pair.CheckBurn.
ProviderCheckBurn(s, l, address, data) ==
    IF Cmp(data.Liquidity, GetBalance(l, address, LiquidityCoin)) = 1
    THEN Failed(s, CodeInsufficientLiquidityBalance)
    ELSE PairDoCheckBurn(s, data.Coin0, data.Coin1, data.Liquidity, data.MinimumVolume0,
                         data.MinimumVolume1, TotalSupply(l))

\* The code of the response of basicCheck to the error of CheckBurn.
BurnErrorCode(err) ==
    IF err = CodeInsufficientLiquidityBalance THEN CodeInsufficientLiquidityBalance
    ELSE IF err = ErrorInsufficientLiquidityBurned THEN CodeInsufficientLiquidityBurned
    ELSE CodeSwapPoolUnknown

\* The end of the delivery of RemoveSwapPoolData.Run: the commission leaves
\* the sender, then the two volumes reach it.
RemovePaid(s, l, add, tx, data, gasAmount, commissionInBaseCoin, burn) ==
    Response(s,
             AddBalance(AddBalance(SubBalance(l, tx.Sender, tx.GasCoin, gasAmount),
                                   tx.Sender, data.Coin0, burn.ret[1]),
                        tx.Sender, data.Coin1, burn.ret[2]),
             add, "", CodeOK, TRUE, commissionInBaseCoin)

RemoveCommission(com, l, tx, data, burn) ==
    IF com.panic # "" THEN Response(com.s, l, burn.add, com.panic, "", TRUE, Big(0))
    ELSE RemovePaid(com.s, l, burn.add \o com.add, tx, data, com.ret[1], com.ret[2], burn)

RemoveBurned(burn, l, tx, data, c) ==
    IF burn.panic # "" THEN Response(burn.s, l, <<>>, burn.panic, "", TRUE, Big(0))
    ELSE IF c.poolSwap
    THEN RemoveCommission(PairSell(burn.s, tx.GasCoin, BaseCoinID, c.commission,
                                   tx.CommissionInBaseCoin),
                          SubBalance(l, tx.Sender, LiquidityCoin, data.Liquidity),
                          tx, data, burn)
    ELSE RemovePaid(burn.s, SubBalance(l, tx.Sender, LiquidityCoin, data.Liquidity),
                    burn.add, tx, data, c.commission, tx.CommissionInBaseCoin, burn)

\* The delivery of RemoveSwapPoolData.Run.
RemoveDeliver(s, l, tx, data, c) ==
    RemoveBurned(PairBurn(s, data.Coin0, data.Coin1, data.Liquidity, data.MinimumVolume0,
                          data.MinimumVolume1, TotalSupply(l)),
                 l, tx, data, c)

RemoveCommissioned(l, tx, data, c, deliver) ==
    IF c.panic # "" THEN Response(c.s, l, <<>>, c.panic, "", FALSE, Big(0))
    ELSE IF c.log # "" THEN Response(c.s, l, <<>>, "", CodeFailed, FALSE, Big(0))
    ELSE IF Cmp(GetBalance(l, tx.Sender, tx.GasCoin), c.commission) < 0
    THEN Response(c.s, l, <<>>, "", CodeInsufficientFunds, FALSE, Big(0))
    ELSE IF deliver THEN RemoveDeliver(c.s, l, tx, data, c)
    ELSE Response(c.s, l, <<>>, "", CodeOK, TRUE, Big(0))

RemoveBurnChecked(chk, l, tx, data, deliver) ==
    IF chk.panic # "" THEN Response(chk.s, l, <<>>, chk.panic, "", FALSE, Big(0))
    ELSE IF chk.err # ""
    THEN Response(chk.s, l, <<>>, "", BurnErrorCode(chk.err), FALSE, Big(0))
    ELSE RemoveCommissioned(l, tx, data,
             CalculateCommission(chk.s, tx.GasCoin, tx.CommissionInBaseCoin), deliver)

\* RemoveSwapPoolData.Run on a CheckState (deliver = FALSE) or on a State.
RemoveRun(s, l, tx, data, deliver) ==
    IF data.Coin0 = data.Coin1
    THEN Response(s, l, <<>>, "", CodeCrossConvert, FALSE, Big(0))
    ELSE IF ~SwapPoolExist(s, data.Coin0, data.Coin1).ret
    THEN Response(SwapPoolExist(s, data.Coin0, data.Coin1).s, l, <<>>, "",
                  CodePairNotExists, FALSE, Big(0))
    ELSE RemoveBurnChecked(ProviderCheckBurn(SwapPoolExist(s, data.Coin0, data.Coin1).s,
                                             l, tx.Sender, data),
                           l, tx, data, deliver)

(***************************************************************************)
(* RemoveSpec: a provider of the pool of the base coin with coin 2 removes *)
(* liquidity.                                                              *)
(***************************************************************************)

\* The supply of liquidity of the pool as it was created.
CreatedSupply == startingSupply(Pre(Self, BaseCoinID, TxCoin).Reserve0,
                                Pre(Self, BaseCoinID, TxCoin).Reserve1)

\* The sender provided a tenth of the pool, or all of it but the minimum
\* liquidity.
SenderLiquidity == {Div(CreatedSupply, Big(10)), Sub(CreatedSupply, Bound)}

\* The sender is given its balance, the same of both coins, and its liquidity.
RemoveFund ==
    /\ steps = 0
    /\ last.op = ""
    /\ \E b \in TxBalances, liquidity \in SenderLiquidity :
           /\ ledger' =
                  AddBalance(
                      AddBalance(
                          AddBalance(AddBalance(ledger, TxSender, BaseCoinID, Big(b)),
                                     TxSender, TxCoin, Big(b)),
                          TxSender, LiquidityCoin, liquidity),
                      OtherProviders, LiquidityCoin, Sub(CreatedSupply, liquidity))
           /\ last' = [NoCall EXCEPT !.op = "Fund", !.args = <<b, b, liquidity>>]
    /\ prev' = last
    /\ UNCHANGED <<locks, votes, db, pairs, dirties, nextID, dirtyNextID, checker, tree, book,
                   genesis, modified, handed, steps>>

\* The liquidity asked for: all the sender has, a tenth of it, or more.
RemoveLiquidities ==
    {GetBalance(ledger, TxSender, LiquidityCoin),
     Div(GetBalance(ledger, TxSender, LiquidityCoin), Big(10)),
     Add(GetBalance(ledger, TxSender, LiquidityCoin), Big(1))}

RemoveTxs ==
    {<<Tx(TxSender, g, Big(c)), RemoveSwapPoolData(p[1], p[2], liquidity, Big(m), Big(m))>> :
        g \in {BaseCoinID, TxCoin}, c \in TxCommissions,
        p \in {<<BaseCoinID, TxCoin>>, <<TxCoin, BaseCoinID>>, <<TxCoin, TxCoin>>},
        liquidity \in RemoveLiquidities, m \in {1}}

\* Run on the state of the block (deliver), or on a CheckState before
\* anything else was run.
RemoveRuns ==
    /\ TxMayRun
    /\ \E t \in RemoveTxs, deliver \in BOOLEAN :
           /\ deliver \/ last.op = "Fund"
           /\ TxStep(IF deliver THEN "RemoveSwapPool" ELSE "RemoveSwapPool.Check",
                     t[1], t[2], RemoveRun(Self, ledger, t[1], t[2], deliver))

\* The liquidity the sender adds, in the base coin.
AddedAmounts == {100, 1000}

\* The sender adds liquidity: Swap.PairMint takes amount0 of the base coin and
\* what it needs of the other coin, no more than the sender holds, and the
\* sender receives the liquidity.
AddLiquidity(s, l, amount0) ==
    PairMint(s, BaseCoinID, TxCoin, amount0, GetBalance(l, TxSender, TxCoin),
             TotalSupply(l))

LiquidityAdded(m, l) ==
    Response(m.s,
             AddBalance(SubBalance(SubBalance(l, TxSender, BaseCoinID, m.ret[1]),
                                   TxSender, TxCoin, m.ret[2]),
                        TxSender, LiquidityCoin, m.ret[3]),
             m.add, "", CodeOK, TRUE, Big(0))

RemoveAdd ==
    /\ last.op = "Fund"
    /\ \E a \in AddedAmounts :
           /\ Cmp(Big(a), GetBalance(ledger, TxSender, BaseCoinID)) # 1
           /\ PairDoCheckMint(Self, BaseCoinID, TxCoin, Big(a),
                              GetBalance(ledger, TxSender, TxCoin),
                              TotalSupply(ledger)).err = ""
           /\ \E m \in {AddLiquidity(Self, ledger, Big(a))} :
                  /\ m.panic = ""
                  /\ TxStep("AddLiquidity", Tx(TxSender, BaseCoinID, Big(0)), <<a>>,
                            LiquidityAdded(m, ledger))

RemoveNext ==
    \/ RemoveFund
    \/ RemoveAdd
    \/ RemoveRuns

RemoveSpec == TxInit /\ [][RemoveNext]_vars

\* C37: a delivery of RemoveSwapPool whose checks passed ends without a
\* panic, with code OK.
C37_RemoveDelivers ==
    (last.op = "RemoveSwapPool" /\ ChecksPassed) =>
        /\ last.panic = ""
        /\ last.ret[1] = CodeOK

\* What the accounts and the reward pool hold of a coin.
AccountsTotal(coin) ==
    Add(GetBalance(ledger, TxSender, coin), GetBalance(ledger, RewardPool, coin))

\* What the sender was given of a coin at the start.
FundedBalance(coin) == ledger.balance[IF coin = BaseCoinID THEN 1 ELSE 2][3]

\* The reserves of the pool in the tree the run started on.
StartReserve(coin) ==
    IF coin = BaseCoinID THEN db.data[<<BaseCoinID, TxCoin>>].data.Reserve0
    ELSE db.data[<<BaseCoinID, TxCoin>>].data.Reserve1

ReserveNow(coin) ==
    IF coin = BaseCoinID THEN Pre(Self, BaseCoinID, TxCoin).Reserve0
    ELSE Pre(Self, BaseCoinID, TxCoin).Reserve1

\* The conservation check: the checker recorded what the reserves changed by,
\* and the accounts hold what they were given less what went to the pool.
Conserved ==
    \A coin \in {BaseCoinID, TxCoin} :
        /\ Add(StartReserve(coin), checker[coin]) = ReserveNow(coin)
        /\ Add(AccountsTotal(coin), checker[coin]) = FundedBalance(coin)

\* The last call is the delivery of a removal of all the liquidity the sender
\* held, by a sender that can pay the commission.
RemovedWholeBalance ==
    /\ last.op = "RemoveSwapPool"
    /\ last.args[2].Coin0 # last.args[2].Coin1
    /\ Sign(last.args[2].Liquidity) = 1
    /\ last.args[2].Liquidity = GetBalance(last.pre, TxSender, LiquidityCoin)
    /\ last.ret[1] \notin {CodeInsufficientFunds, CodeFailed}

\* C27: a provider that removes its whole liquidity balance is answered code
\* OK, and afterwards the accounts, the reserves and the checker agree.
C27_WholeBalanceWithdrawn ==
    RemovedWholeBalance =>
        /\ last.panic = ""
        /\ last.ret[1] = CodeOK
        /\ Conserved

(***************************************************************************)
(* RemoveLimitOrderData                                                    *)
(*                                                                         *)
(* The orders are those of the pool of the gas coin with the base coin,    *)
(* on the side a sale of the gas coin meets: Sell is what the taker pays   *)
(* an order and Buy what the order gives, which is what its owner is       *)
(* refunded.                                                               *)
(***************************************************************************)

CodeOrderNotExists == "OrderNotExists"
CodeIsNotOwnerOfOrder == "IsNotOwnerOfOrder"

\* Limit.isEmpty for an order of the pool
SellOrderEmpty(limit) == Sign(limit.Sell) = 0 \/ Sign(limit.Buy) = 0

\* Swap.GetOrder for an order of the pool: Nil for an order that is not there
\* or that is empty.
GetSellOrder(b, id) ==
    IF \E i \in DOMAIN b.sellOrders :
           b.sellOrders[i].id = id /\ ~SellOrderEmpty(b.sellOrders[i])
    THEN b.sellOrders[CHOOSE i \in DOMAIN b.sellOrders : b.sellOrders[i].id = id]
    ELSE Nil

RECURSIVE WithoutOrder(_, _)
WithoutOrder(orders, id) ==
    IF orders = <<>> THEN <<>>
    ELSE IF orders[1].id = id THEN Tail(orders)
    ELSE <<orders[1]>> \o WithoutOrder(Tail(orders), id)

\* Swap.PairRemoveLimitOrder for an order of the pool: the coin and the
\* volume to refund; the order leaves the list and is marked dirty.
RemoveSellOrder(b, id) ==
    IF GetSellOrder(b, id) = Nil
    THEN [b |-> b, panic |-> PanicOrderNotFound, ret |-> <<>>]
    ELSE [b |-> SellBook(WithoutOrder(b.sellOrders, id), b.dirtyOrders \cup {id},
                         b.dirtiesOrders \cup {<<BaseCoinID, TxCoin>>}),
          panic |-> "",
          ret |-> <<BaseCoinID, GetSellOrder(b, id).Buy>>]

\* What a part of RemoveLimitOrderData.Run answers: as Response, with the
\* orders.
OrderResponse(s, b, l, add, panic, code, checked, reward) ==
    [s |-> s, b |-> b, l |-> l, add |-> add, panic |-> panic, err |-> "",
     ret |-> <<code, checked, reward>>]

RECURSIVE CreditOwners(_, _, _, _)
\* The loop over ownersCom: every owner is credited in the commission coin.
CreditOwners(l, owners, addresses, coin) ==
    IF addresses = {} THEN l
    ELSE LET a == CHOOSE x \in addresses : TRUE
         IN  CreditOwners(AddBalance(l, a, coin, owners[a]), owners, addresses \ {a},
                          coin)

\* The refund of the delivery with the volume the order had when Run checked
\* it: a faulty variant.
RemoveOrderRefundStale(s, b, l, add, tx, removal, order, reward) ==
    IF removal.panic # "" THEN OrderResponse(s, b, l, add, removal.panic, "", TRUE, reward)
    ELSE OrderResponse(s, removal.b,
                       AddBalance(l, tx.Sender, removal.ret[1], order.Buy),
                       add, "", CodeOK, TRUE, reward)

\* coin, volume := PairRemoveLimitOrder(data.ID); AddBalance(sender, coin,
\* volume)
RemoveOrderRefund(s, b, l, add, tx, removal, order, reward) ==
    IF removal.panic # "" THEN OrderResponse(s, b, l, add, removal.panic, "", TRUE, reward)
    ELSE OrderResponse(s, removal.b,
                       AddBalance(l, tx.Sender, removal.ret[1], removal.ret[2]),
                       add, "", CodeOK, TRUE, reward)

\* The commission was swapped: the owners of the orders it met are credited,
\* the commission leaves the sender, and the order is removed.
RemoveOrderSold(sold, b, l, tx, id, order) ==
    IF sold.panic # "" THEN OrderResponse(sold.s, b, l, <<>>, sold.panic, "", TRUE, Big(0))
    ELSE RemoveOrderRefund(sold.s, sold.b,
             SubBalance(CreditOwners(l, sold.ret[2], DOMAIN sold.ret[2], tx.GasCoin),
                        tx.Sender, tx.GasCoin, tx.CommissionInBaseCoin),
             <<>>, tx, RemoveSellOrder(sold.b, id), order, sold.ret[1])

\* The delivery of RemoveLimitOrderData.Run.  With a gas coin that is not the
\* base coin tx.CommissionInBaseCoin stands for the commission in the gas
\* coin, which the sale turns into the base coin.
RemoveOrderDeliver(s, b, l, tx, id, order) ==
    IF tx.GasCoin # BaseCoinID
    THEN RemoveOrderSold(SellWithOrders(Pair(s, tx.GasCoin, BaseCoinID).s,
                                        Pair(s, tx.GasCoin, BaseCoinID).p, b,
                                        tx.CommissionInBaseCoin),
                         b, l, tx, id, order)
    ELSE RemoveOrderRefund(s, b,
                           SubBalance(l, tx.Sender, tx.GasCoin, tx.CommissionInBaseCoin),
                           <<>>, tx, RemoveSellOrder(b, id), order,
                           tx.CommissionInBaseCoin)

\* RemoveLimitOrderData.Run on a CheckState (deliver = FALSE) or on a State.
RemoveOrderRun(s, b, l, tx, id, deliver) ==
    IF GetSellOrder(b, id) = Nil
    THEN OrderResponse(s, b, l, <<>>, "", CodeOrderNotExists, FALSE, Big(0))
    ELSE IF GetSellOrder(b, id).Owner # tx.Sender
    THEN OrderResponse(s, b, l, <<>>, "", CodeIsNotOwnerOfOrder, FALSE, Big(0))
    ELSE IF Cmp(GetBalance(l, tx.Sender, tx.GasCoin), tx.CommissionInBaseCoin) < 0
    THEN OrderResponse(s, b, l, <<>>, "", CodeInsufficientFunds, FALSE, Big(0))
    ELSE IF deliver THEN RemoveOrderDeliver(s, b, l, tx, id, GetSellOrder(b, id))
    ELSE OrderResponse(s, b, l, <<>>, "", CodeOK, TRUE, Big(0))

(***************************************************************************)
(* RemoveOrderSpec: orders are put on the pool, and one is removed by a    *)
(* transaction that pays its commission in the base coin or by a sale on   *)
(* the pool.                                                               *)
(***************************************************************************)

\* The reserves of the pool (base coin, TxCoin): at the price of the orders,
\* and above it.
RemoveOrderReserves == {<<900000, 1000000>>, <<1000000, 1000000>>}

RemoveOrderArgs == {<<500, 450, "Mx01">>, <<50, 45, "Mx01">>, <<500, 450, "Mx02">>}

\* The commissions of the transactions.
RemoveOrderCommissions == {20, 600, 54400, 54500, 54700, 60000}

\* What the sender holds of both coins.
RemoveOrderBalance == Big(100000)

RemoveOrderInit ==
    /\ \E r \in RemoveOrderReserves : db = PoolTree(Big(r[1]), Big(r[2]))
    /\ pairs = [k \in Keys |-> Absent]
    /\ dirties = {}
    /\ nextID = 0
    /\ dirtyNextID = FALSE
    /\ checker = [c \in Coins |-> Big(0)]
    /\ book = SellBook(<<>>, {}, {})
    /\ Started
    /\ last = NoCall
    /\ prev = NoCall
    /\ steps = 0

RemoveOrderFund ==
    /\ last.op = ""
    /\ ledger' = AddBalance(AddBalance(ledger, TxSender, BaseCoinID, RemoveOrderBalance),
                            TxSender, TxCoin, RemoveOrderBalance)
    /\ last' = [NoCall EXCEPT !.op = "Fund"]
    /\ prev' = last
    /\ UNCHANGED <<locks, votes, db, pairs, dirties, nextID, dirtyNextID, checker, tree, book,
                   genesis, modified, handed, steps>>

RemoveOrderAdd ==
    /\ last.op \in {"Fund", "AddOrder"}
    /\ Len(book.sellOrders) < MaxSellOrders
    /\ \E a \in RemoveOrderArgs : DoAddSellOrder(Big(a[1]), Big(a[2]), a[3])

\* A run of Run ends with the outcome out.
OrderTxStep(op, tx, id, out) ==
    /\ pairs' = out.s.pairs
    /\ dirties' = out.s.dirties
    /\ nextID' = out.s.nextID
    /\ dirtyNextID' = out.s.dirtyNextID
    /\ book' = out.b
    /\ ledger' = Rewarded(out.l, out.ret[3])
    /\ last' = [op |-> op, coins |-> <<BaseCoinID, TxCoin>>, args |-> <<tx, id>>,
                reg |-> Self, pre |-> [b |-> book, l |-> ledger],
                panic |-> out.panic, err |-> out.err, ret |-> out.ret]
    /\ prev' = last
    /\ steps' = steps + 1
    /\ UNCHANGED <<locks, votes, db, tree, checker, genesis, modified, handed>>

RemoveOrderTxs ==
    {<<Tx(TxSender, g, Big(c)), id>> :
        g \in {BaseCoinID, TxCoin}, c \in RemoveOrderCommissions, id \in 1..MaxSellOrders}

RemoveOrderDelivered ==
    /\ last.op = "AddOrder"
    /\ \E t \in RemoveOrderTxs :
           OrderTxStep("RemoveLimitOrder", t[1], t[2],
                       RemoveOrderRun(Self, book, ledger, t[1], t[2], TRUE))

RemoveOrderChecked ==
    /\ last.op = "AddOrder"
    /\ \E t \in RemoveOrderTxs :
           OrderTxStep("RemoveLimitOrder.Check", t[1], t[2],
                       RemoveOrderRun(Self, book, ledger, t[1], t[2], FALSE))

RemoveOrderNext ==
    \/ RemoveOrderFund
    \/ RemoveOrderAdd
    \/ RemoveOrderDelivered
    \/ RemoveOrderChecked

RemoveOrderSpec == RemoveOrderInit /\ [][RemoveOrderNext]_vars

\* The order that was removed, as it was before the transaction.
OrderBefore == GetSellOrder(last.pre.b, last.args[2])

\* What the sale of the commission met, as Pair.calculateBuyForSellWithOrders
\* gives it on the state before the transaction.
CommissionFills ==
    calculateBuyForSellWithOrders(Pre(last.reg, TxCoin, BaseCoinID), last.pre.b,
                                  last.args[1].CommissionInBaseCoin).orders

RECURSIVE FilledOf(_, _)
\* What the fills took of the order id.
FilledOf(fills, id) ==
    IF fills = <<>> THEN Big(0)
    ELSE IF fills[1].id = id THEN Add(fills[1].Buy, FilledOf(Tail(fills), id))
    ELSE FilledOf(Tail(fills), id)

\* What the sale of the commission took of the removed order.
TakenByCommission ==
    IF last.args[1].GasCoin = BaseCoinID THEN Big(0)
    ELSE FilledOf(CommissionFills, last.args[2])

\* What the removal credited the sender: the last credit, if the delivery
\* reached it.
Refunded ==
    IF last.panic # "" THEN Big(0)
    ELSE BalanceOf(SubSeq(ledger.balance, Len(last.pre.l.balance) + 1, Len(ledger.balance)),
                   TxSender, BaseCoinID)

\* The commission was paid by a sale on the pool, which completed.
SaleCompleted ==
    /\ last.args[1].GasCoin # BaseCoinID
    /\ last.panic \in {"", PanicOrderNotFound}

MaxImportSteps == 8

\* The key of the next order id in the tree.
NextOrdersIDKey == <<mainPrefix, totalOrdersIDPrefix>>

ImportMayCall ==
    steps < MaxImportSteps /\ last.panic = "" /\ last.err = ""
        /\ last.op \notin {"Commit", "Export"}
        /\ ~(last.op = "New" /\ db = EmptyTree)

\* Number of orders added between two calls of Commit.
MaxImportOrders == 2

ImportAddOrder ==
    /\ ImportMayCall
    /\ Cardinality(DirtyOrders(book)) < MaxImportOrders
    /\ \E a \in OrderArgs : DoPairAddOrder(a[1], a[2], a[3], a[4], a[5], a[6])

ImportCommit ==
    /\ ImportMayCall
    /\ DoCommit

ImportSetImmutableTree ==
    /\ steps < MaxImportSteps
    /\ last.op = "Commit"
    /\ last.err = ""
    /\ DoSetImmutableTree

\* The node starts again: the Swap is made anew over the tree stored last.
ImportReload ==
    /\ steps < MaxImportSteps
    /\ last.op = "SetImmutableTree"
    /\ DoNew(db)

\* The state is exported once in a run.
ImportExport ==
    /\ ImportMayCall
    /\ genesis = NoAppState
    /\ DoExport

\* A chain starts from the state exported: the Swap is made anew over an
\* empty tree, and Import is its first call.
ImportNewChain ==
    /\ steps < MaxImportSteps
    /\ last.op = "Export"
    /\ DoNew(EmptyTree)

ImportGenesis ==
    /\ steps < MaxImportSteps
    /\ last.op = "New"
    /\ db = EmptyTree
    /\ DoImport

ImportSpecNext ==
    \/ ImportAddOrder
    \/ ImportCommit
    \/ ImportSetImmutableTree
    \/ ImportReload
    \/ ImportExport
    \/ ImportNewChain
    \/ ImportGenesis

ImportSpec == OrderInit /\ [][ImportSpecNext]_vars

\* The Swap is that of the chain started by Import, Import done.
ImportedChain ==
    /\ genesis # NoAppState
    /\ last.op # "Export"
    /\ ~(last.op = "New" /\ db = EmptyTree)

\* Commit ran on the imported chain: Import marks the pairs of the pools,
\* which Commit writes.
ImportCommitted == ImportedChain /\ tree # EmptyTree

\* C39: after Import of a state whose NextOrderID is N > 0 and Commit, the
\* tree holds N or more under the key of the next order id, and an order
\* added on the imported chain, also by a Swap made anew over the committed
\* tree, is never given an id below N.
C39_CounterSurvivesImport ==
    (ImportedChain /\ genesis.NextOrderID > 0) =>
        /\ ImportCommitted =>
               /\ TreeGet(tree, NextOrdersIDKey).has
               /\ TreeGet(tree, NextOrdersIDKey).value >= genesis.NextOrderID
        /\ (last.op = "PairAddOrder" /\ last.panic = "") =>
               last.ret[1] >= genesis.NextOrderID

(***************************************************************************)
(* Commission: the votes for the prices of the commissions                 *)
(***************************************************************************)

CodeDecodeError == "DecodeError"
CodeVoiceExpired == "VoiceExpired"
CodeVoiceAlreadyExists == "VoiceAlreadyExists"
CodeCoinNotExists == "CoinNotExists"
CodeIsNotOwnerOfCandidate == "IsNotOwnerOfCandidate"

\* Model{height, Price, Votes}; markDirty of the Model marks its height.
Model(height, encode) == [height |-> height, Price |-> encode, Votes |-> <<>>]

\* Commission.get(height): the entry of the map, or nil (the empty
\* sequence); the tree the Commission reads holds no vote.
get(c, height) == IF height \in DOMAIN c.list THEN c.list[height] ELSE <<>>

\* Commission.setToMap
setToMap(c, height, models) ==
    [c EXCEPT !.list = [h \in DOMAIN c.list \cup {height} |->
                           IF h = height THEN models ELSE c.list[h]]]

\* Commission.getOrNew(height, encode): the Commission afterwards and the
\* place in c.list[height] of the Model returned, 0 for a nil *Model.
getOrNew(c, height, encode) ==
    IF Len(get(c, height)) = 0
    THEN [c |-> setToMap(c, height, <<Model(height, encode)>>), at |-> 1]
    ELSE IF \E i \in DOMAIN get(c, height) : get(c, height)[i].Price = encode
    THEN [c |-> c,
          at |-> CHOOSE i \in DOMAIN get(c, height) :
                     /\ get(c, height)[i].Price = encode
                     /\ \A j \in 1..(i - 1) : get(c, height)[j].Price # encode]
    ELSE [c |-> c, at |-> 0]

\* Model.addVote(pubkey) on the Model getOrNew returned: the vote is
\* appended and the height marked dirty; a nil Model has no Votes to
\* append to.
addVote(g, height, pubkey) ==
    IF g.at = 0 THEN [c |-> g.c, panic |-> PanicNilDereference]
    ELSE [c |-> [g.c EXCEPT !.list[height][g.at].Votes = Append(@, pubkey),
                            !.dirty = @ \cup {height}],
          panic |-> ""]

\* Commission.AddVoice(height, pubkey, encode)
AddVoice(c, height, pubkey, encode) == addVote(getOrNew(c, height, encode), height, pubkey)

\* Commission.IsVoteExists(height, pubkey)
IsVoteExists(c, height, pubkey) ==
    \E i \in DOMAIN get(c, height) :
        \E j \in DOMAIN get(c, height)[i].Votes : get(c, height)[i].Votes[j] = pubkey

(***************************************************************************)
(* VoteCommissionData.Run                                                  *)
(***************************************************************************)

\* VoteCommissionData: of the prices it carries, Coin and Send stand for
\* all.
VoteCommissionData(pubKey, height, coin, send) ==
    [PubKey |-> pubKey, Height |-> height, Coin |-> coin, Send |-> send, More |-> <<>>]

\* data.price().Encode(): the fields of the Price in their order.
PriceEncode(data) == <<data.Coin, data.Send>>

\* The owners of the candidates.
CandidateOwner == [k \in {"Mp01", "Mp02", "Mp03"} |-> IF k = "Mp03" THEN "Mx02" ELSE "Mx01"]

\* What Run returns, and the state it leaves: the registry s, the
\* Commission c and the accounts l.
VoteResponse(s, c, l, add, panic, code, checked, reward) ==
    [s |-> s, c |-> c, l |-> l, add |-> add, panic |-> panic, err |-> "",
     ret |-> <<code, checked, reward>>]

VoiceAdded(s, v, l, add, reward) ==
    VoteResponse(s, v.c, l, add, v.panic, IF v.panic = "" THEN CodeOK ELSE "", TRUE, reward)

\* The delivery from SubBalance on.
VotePaid(s, c, l, add, tx, data, gasAmount, commissionInBaseCoin) ==
    VoiceAdded(s, AddVoice(c, data.Height, data.PubKey, PriceEncode(data)),
               SubBalance(l, tx.Sender, tx.GasCoin, gasAmount), add, commissionInBaseCoin)

VoteSold(com, c, l, tx, data) ==
    IF com.panic # "" THEN VoteResponse(com.s, c, l, <<>>, com.panic, "", TRUE, Big(0))
    ELSE VotePaid(com.s, c, l, com.add, tx, data, com.ret[1], com.ret[2])

\* The delivery of VoteCommissionData.Run.
VoteDeliver(s, c, l, tx, data, com) ==
    IF com.poolSwap
    THEN VoteSold(PairSell(s, tx.GasCoin, BaseCoinID, com.commission,
                           tx.CommissionInBaseCoin), c, l, tx, data)
    ELSE VotePaid(s, c, l, <<>>, tx, data, com.commission, tx.CommissionInBaseCoin)

VoteCommissioned(c, l, tx, data, com, deliver) ==
    IF com.panic # "" THEN VoteResponse(com.s, c, l, <<>>, com.panic, "", FALSE, Big(0))
    ELSE IF com.log # "" THEN VoteResponse(com.s, c, l, <<>>, "", CodeFailed, FALSE, Big(0))
    ELSE IF Cmp(GetBalance(l, tx.Sender, tx.GasCoin), com.commission) < 0
    THEN VoteResponse(com.s, c, l, <<>>, "", CodeInsufficientFunds, FALSE, Big(0))
    ELSE IF deliver THEN VoteDeliver(com.s, c, l, tx, data, com)
    ELSE VoteResponse(com.s, c, l, <<>>, "", CodeOK, TRUE, Big(0))

\* checkCandidateOwnership and what follows it in Run.
VoteOwned(s, c, l, tx, data, deliver) ==
    IF CandidateOwner[data.PubKey] # tx.Sender
    THEN VoteResponse(s, c, l, <<>>, "", CodeIsNotOwnerOfCandidate, FALSE, Big(0))
    ELSE VoteCommissioned(c, l, tx, data,
             CalculateCommission(s, tx.GasCoin, tx.CommissionInBaseCoin), deliver)

\* VoteCommissionData.basicCheck from the coin on.
VoteCoinChecked(s, c, l, tx, data, deliver) ==
    IF data.Coin \notin Coins
    THEN VoteResponse(s, c, l, <<>>, "", CodeCoinNotExists, FALSE, Big(0))
    ELSE IF data.Coin # BaseCoinID /\ ~SwapPoolExist(s, data.Coin, BaseCoinID).ret
    THEN VoteResponse(SwapPoolExist(s, data.Coin, BaseCoinID).s, c, l, <<>>, "",
                      CodePairNotExists, FALSE, Big(0))
    ELSE VoteOwned(IF data.Coin # BaseCoinID
                   THEN SwapPoolExist(s, data.Coin, BaseCoinID).s ELSE s,
                   c, l, tx, data, deliver)

\* VoteCommissionData.Run at the block currentBlock, on a CheckState
\* (deliver = FALSE) or on a State.
VoteRun(s, c, l, tx, data, currentBlock, deliver) ==
    IF Len(data.More) > 0
    THEN VoteResponse(s, c, l, <<>>, "", CodeDecodeError, FALSE, Big(0))
    ELSE IF data.Height < currentBlock
    THEN VoteResponse(s, c, l, <<>>, "", CodeVoiceExpired, FALSE, Big(0))
    ELSE IF IsVoteExists(c, data.Height, data.PubKey)
    THEN VoteResponse(s, c, l, <<>>, "", CodeVoiceAlreadyExists, FALSE, Big(0))
    ELSE VoteCoinChecked(s, c, l, tx, data, deliver)

(***************************************************************************)
(* VoteSpec: the owner of candidates votes for prices of the commissions.  *)
(***************************************************************************)

\* The block of the transactions of a run, and the heights voted for.
VoteBlock == CHOOSE h \in {5} : TRUE

VoteHeights == {VoteBlock - 1, VoteBlock}

\* The prices voted for: <<Coin, Send>>.
VotePrices == {<<BaseCoinID, 1>>, <<BaseCoinID, 2>>, <<TxCoin, 1>>,
               <<TxCoin + 1, 1>>}

\* tx.CommissionInBaseCoin() of the votes.
VoteCommissions == {Big(100)}

VoteTxs ==
    {<<Tx(TxSender, g, k), VoteCommissionData(p, h, pr[1], pr[2])>> :
        g \in {BaseCoinID, TxCoin}, k \in VoteCommissions, p \in DOMAIN CandidateOwner,
        h \in VoteHeights, pr \in VotePrices}

\* A run of VoteCommissionData.Run ends with the outcome out.
VoteStep(op, tx, data, out) ==
    /\ pairs' = out.s.pairs
    /\ dirties' = out.s.dirties
    /\ nextID' = out.s.nextID
    /\ dirtyNextID' = out.s.dirtyNextID
    /\ checker' = AddCoins(checker, out.add)
    /\ ledger' = Rewarded(out.l, out.ret[3])
    /\ votes' = out.c
    /\ last' = [op |-> op, coins |-> <<BaseCoinID, TxCoin>>, args |-> <<tx, data>>,
                reg |-> Self, pre |-> votes,
                panic |-> out.panic, err |-> out.err, ret |-> out.ret]
    /\ prev' = last
    /\ steps' = steps + 1
    /\ UNCHANGED <<locks, db, tree, book, genesis, modified, handed>>

\* Run on a State.
VoteDelivered ==
    /\ TxMayRun
    /\ \E t \in VoteTxs :
           VoteStep("VoteCommission", t[1], t[2],
                    VoteRun(Self, votes, ledger, t[1], t[2], VoteBlock, TRUE))

\* Run on a CheckState.
VoteChecked ==
    /\ TxMayRun
    /\ \E t \in VoteTxs :
           VoteStep("VoteCommission.Check", t[1], t[2],
                    VoteRun(Self, votes, ledger, t[1], t[2], VoteBlock, FALSE))

\* The sender is given the same balance of the two coins of the pool.
VoteFund ==
    /\ steps = 0
    /\ last.op = ""
    /\ \E b \in TxBalances :
           /\ ledger' = AddBalance(AddBalance(ledger, TxSender, BaseCoinID, Big(b)),
                                   TxSender, TxCoin, Big(b))
           /\ last' = [NoCall EXCEPT !.op = "Fund", !.args = <<b, b>>]
    /\ prev' = last
    /\ UNCHANGED <<locks, votes, db, pairs, dirties, nextID, dirtyNextID, checker, tree,
                   book, genesis, modified, handed, steps>>

VoteNext ==
    \/ VoteFund
    \/ VoteDelivered
    \/ VoteChecked

VoteSpec == TxInit /\ [][VoteNext]_vars

\* The delivery of a vote went as far as AddVoice.
VoiceSent == last.op = "VoteCommission" /\ ChecksPassed

\* C40: AddVoice(height, pubkey, price) does not abort whatever votes the
\* height has, afterwards IsVoteExists(height, pubkey) holds, and a second
\* VoteCommission of the same key for the same height is rejected with
\* VoiceAlreadyExists.
C40_VoteRecorded ==
    VoiceSent =>
        /\ last.panic = ""
        /\ IsVoteExists(votes, last.args[2].Height, last.args[2].PubKey)
        /\ \A t \in VoteTxs :
               (t[2].Height = last.args[2].Height /\ t[2].PubKey = last.args[2].PubKey) =>
                   VoteRun(Self, votes, ledger, t[1], t[2], VoteBlock, TRUE).ret[1]
                       = CodeVoiceAlreadyExists

====
